---- MODULE Spec2Model ----
(***************************************************************************)
(* WarpLink React Native SDK: the TypeScript bridge (src/WarpLink.ts), the *)
(* typed error model (src/types.ts) and the two platform modules           *)
(* (ios/WarpLinkModule.swift, android WarpLinkModule.kt), as a state       *)
(* machine.  JavaScript runs on one thread: an action is one synchronous   *)
(* run of application or bridge code between two suspension points.        *)
(***************************************************************************)
EXTENDS Integers, Sequences, FiniteSets, TLC

(***************************************************************************)
(* Bounds of the model.                                                    *)
(***************************************************************************)
\* onDeepLink calls made in one run
MaxRegs == 3
\* URLs handed over by the platform in one run
MaxPush == 1
\* getInitialDeepLink calls made in one run
MaxInitialCalls == 2
\* configure calls made in one run
MaxConfigure == 1
\* listener callbacks that throw in one run
MaxThrows == 1
\* onDeepLink and unsubscribe calls made from inside a listener callback
MaxReentrant == 1
\* handleDeepLink, checkDeferredDeepLink, getAttributionResult and
\* isConfigured calls made in one run
MaxCalls == 1
MaxInFlight == 2
MaxRegsInFlight == 2
MaxReconfigure == 2
MaxOperations == 2

(***************************************************************************)
(* JavaScript values.  A value is a record tagged by t (its typeof, with   *)
(* null, undefined and Error instances told apart).                        *)
(***************************************************************************)
Undefined == [t |-> "undefined"]
Null      == [t |-> "null"]
Str(s)    == [t |-> "string", s |-> s]
Num(n)    == [t |-> "number", n |-> n]
Bool(b)   == [t |-> "boolean", b |-> b]
\* a plain object: fields maps the own property names to values
Obj(fields) == [t |-> "object", fields |-> fields]
\* an instance of the host Error type (cls = "Error") or of a subclass
ErrorObj(cls, code, message) ==
    [t |-> "Error", cls |-> cls, code |-> code, message |-> message]

\* obj[key]: undefined for a missing property
Get(obj, key) ==
    IF key \in DOMAIN obj.fields THEN obj.fields[key] ELSE Undefined

\* typeof v === 'object' (true of null, of plain objects and of Error instances)
TypeofObject(v) == v.t \in {"null", "object", "Error"}

\* v == null (loose equality: null or undefined)
IsNullish(v) == v.t \in {"null", "undefined"}

\* Boolean(v)
Truthy(v) ==
    CASE v.t = "undefined" -> FALSE
      [] v.t = "null"      -> FALSE
      [] v.t = "boolean"   -> v.b
      [] v.t = "number"    -> v.n # 0
      [] v.t = "string"    -> v.s # ""
      [] OTHER             -> TRUE

\* String(v), for the values of this model
JsString(v) ==
    CASE v.t = "undefined" -> "undefined"
      [] v.t = "null"      -> "null"
      [] v.t = "boolean"   -> IF v.b THEN "true" ELSE "false"
      [] v.t = "number"    -> ToString(v.n)
      [] v.t = "string"    -> v.s
      [] v.t = "Error"     -> v.cls \o ": " \o v.message
      [] OTHER             -> "[object Object]"

(***************************************************************************)
(* src/types.ts: the typed error model.                                    *)
(***************************************************************************)
ErrorCodes ==
    { "E_NOT_CONFIGURED", "E_INVALID_API_KEY_FORMAT", "E_INVALID_API_KEY",
      "E_NETWORK_ERROR", "E_SERVER_ERROR", "E_INVALID_URL",
      "E_LINK_NOT_FOUND", "E_DECODING_ERROR" }

\* new WarpLinkError(code, message)
WarpLinkError(code, message) == ErrorObj("WarpLinkError", Str(code), message)

\* error instanceof Error
InstanceOfError(v) == v.t = "Error"

(***************************************************************************)
(* src/WarpLink.ts: error mapping.                                         *)
(***************************************************************************)
\* a plausible slip: any string code is taken for a known one
isErrorCodeAnyString(code) == code.t = "string"

isErrorCode(code) == code.t = "string" /\ code.s \in ErrorCodes

\* a plausible slip: the instanceof branch left out
mapNativeErrorGeneric(error) == WarpLinkError("E_SERVER_ERROR", JsString(error))

\* a plausible slip: the message taken from String(error) in both branches
mapNativeErrorStringified(error) ==
    WarpLinkError(
        IF InstanceOfError(error) /\ Truthy(error.code) /\ isErrorCode(error.code)
        THEN error.code.s ELSE "E_SERVER_ERROR",
        JsString(error))

mapNativeError(error) ==
    IF InstanceOfError(error)
    THEN WarpLinkError(
             IF Truthy(error.code) /\ isErrorCode(error.code)
             THEN error.code.s ELSE "E_SERVER_ERROR",
             error.message)
    ELSE WarpLinkError("E_SERVER_ERROR", JsString(error))

(***************************************************************************)
(* src/WarpLink.ts: the response normalizer.                               *)
(***************************************************************************)
\* a plausible slip: any string taken for a match type
deserializeMatchTypeAnyString(value) ==
    IF value.t = "string" THEN value ELSE Null

\* a plausible slip: the second literal left out of the comparison
deserializeMatchTypeFirstOnly(value) ==
    IF value = Str("deterministic") THEN value ELSE Null

deserializeMatchType(value) ==
    IF value = Str("deterministic") \/ value = Str("probabilistic")
    THEN value ELSE Null

\* a plausible slip: String(obj[key]) without the ?? ''
StringAlways(v) == JsString(v)

\* obj[key] ?? ''  then String(...)
StringOrEmpty(v) == IF IsNullish(v) THEN "" ELSE JsString(v)

\* a plausible slip: a truthiness test in place of the typeof test
IsNumberTruthy(v) == v.t = "number" /\ Truthy(v)

\* typeof v === 'number'
IsNumber(v) == v.t = "number"

\* a plausible slip: the native value returned as it came
deserializeDeepLinkUnchecked(raw) == raw

deserializeDeepLink(raw) ==
    IF IsNullish(raw) \/ ~TypeofObject(raw) THEN Null
    ELSE LET obj == IF raw.t = "object" THEN raw ELSE Obj(<<>>)
         IN Obj([ linkId |-> Str(StringOrEmpty(Get(obj, "linkId"))),
                  destination |-> Str(StringOrEmpty(Get(obj, "destination"))),
                  deepLinkUrl |->
                      IF ~IsNullish(Get(obj, "deepLinkUrl"))
                      THEN Str(JsString(Get(obj, "deepLinkUrl"))) ELSE Null,
                  customParams |->
                      IF ~IsNullish(Get(obj, "customParams"))
                         /\ TypeofObject(Get(obj, "customParams"))
                      THEN Get(obj, "customParams") ELSE Obj(<<>>),
                  isDeferred |-> Bool(Truthy(Get(obj, "isDeferred"))),
                  matchType |-> deserializeMatchType(Get(obj, "matchType")),
                  matchConfidence |->
                      IF IsNumber(Get(obj, "matchConfidence"))
                      THEN Get(obj, "matchConfidence") ELSE Null ])

\* a plausible slip: isDeferred compared with true in place of Boolean(...)
deserializeAttributionResultStrictFlag(raw) ==
    IF IsNullish(raw) \/ ~TypeofObject(raw) THEN Null
    ELSE LET obj == IF raw.t = "object" THEN raw ELSE Obj(<<>>)
         IN IF IsNullish(deserializeMatchType(Get(obj, "matchType"))) THEN Null
            ELSE IF ~IsNumber(Get(obj, "matchConfidence")) THEN Null
            ELSE Obj([ linkId |-> Str(StringOrEmpty(Get(obj, "linkId"))),
                       matchType |-> deserializeMatchType(Get(obj, "matchType")),
                       matchConfidence |-> Get(obj, "matchConfidence"),
                       isDeferred |-> Bool(Get(obj, "isDeferred") = Bool(TRUE)),
                       installId |->
                           IF Get(obj, "installId").t = "string"
                           THEN Get(obj, "installId") ELSE Null ])

deserializeAttributionResult(raw) ==
    IF IsNullish(raw) \/ ~TypeofObject(raw) THEN Null
    ELSE LET obj == IF raw.t = "object" THEN raw ELSE Obj(<<>>)
         IN IF IsNullish(deserializeMatchType(Get(obj, "matchType"))) THEN Null
            ELSE IF ~IsNumber(Get(obj, "matchConfidence")) THEN Null
            ELSE Obj([ linkId |-> Str(StringOrEmpty(Get(obj, "linkId"))),
                       matchType |-> deserializeMatchType(Get(obj, "matchType")),
                       matchConfidence |-> Get(obj, "matchConfidence"),
                       isDeferred |-> Bool(Truthy(Get(obj, "isDeferred"))),
                       installId |->
                           IF Get(obj, "installId").t = "string"
                           THEN Get(obj, "installId") ELSE Null ])

(***************************************************************************)
(* Helpers on sequences.                                                   *)
(***************************************************************************)
Range(seq) == { seq[i] : i \in DOMAIN seq }

\* the position of x in a sequence without duplicates, 0 when absent
IndexOf(seq, x) ==
    IF x \in Range(seq) THEN CHOOSE i \in DOMAIN seq : seq[i] = x ELSE 0

\* seq without its element at position i
RemoveAt(seq, i) ==
    [ j \in 1..(Len(seq) - 1) |-> IF j < i THEN seq[j] ELSE seq[j + 1] ]

(***************************************************************************)
(* The application's listener callbacks and the URLs the platform sees.    *)
(***************************************************************************)
Listeners == {"l1", "l2"}

\* the n-th URL the platform hands over (n = 0: the URL that launched the app)
UrlOf(n) == "https://aplnk.to/" \o ToString(n)

(***************************************************************************)
(* The Resolver (the native WarpLink SDK behind NativeWarpLink): what a    *)
(* call may settle with.  An outcome is a fulfilment or a rejection.       *)
(***************************************************************************)
Fulfil(v) == [ok |-> TRUE, value |-> v]
Reject(e) == [ok |-> FALSE, value |-> e]

\* the serialized link the native module resolves a URL to
\* (serializeDeepLink in both platform modules)
RawLink(url) ==
    Obj([ linkId |-> Str(url),
          destination |-> Str("https://example.com"),
          deepLinkUrl |-> Null,
          customParams |-> Obj(<<>>),
          isDeferred |-> Bool(FALSE),
          matchType |-> Str("deterministic"),
          matchConfidence |-> Num(1) ])

\* reject(code, message, error) of the platform modules: the bridge hands
\* JavaScript an Error instance carrying the code
NativeError(code, message) == ErrorObj("Error", Str(code), message)

\* handleDeepLink(url) of the native module: before configure the SDK fails
\* with E_NOT_CONFIGURED; afterwards a link, no match (null) or a failure
HandleDeepLinkOutcomes(url, isConf) ==
    IF ~isConf
    THEN { Reject(NativeError("E_NOT_CONFIGURED", "SDK not configured")) }
    ELSE { Fulfil(RawLink(url)), Fulfil(Null),
           Reject(NativeError("E_NETWORK_ERROR", "Network error")) }

(***************************************************************************)
(* State.                                                                  *)
(***************************************************************************)
VARIABLES
    \* src/WarpLink.ts, module state
    emitter,            \* the NativeEventEmitter exists
    listeners,          \* the Set of listener callbacks, in insertion order
    nativeSubscription, \* the EmitterSubscription is held (not null)
    \* the React Native event emitter
    emitterCreated,     \* how many NativeEventEmitter objects were constructed
    handlers,           \* live handler registrations for DEEP_LINK_EVENT
    \* held by the application
    unsubs,             \* the unsubscribe closures returned so far
    \* push-driven resolutions (resolveAndDispatch activations)
    resolutions,        \* one record per activation, in arrival order
    fan,                \* the fan-out loop in progress, if any
    invocations,        \* every listener invocation so far, in order
    unhandled,          \* promises left rejected with no handler
    \* the platform module
    platform,           \* "ios" or "android"
    initialURL,         \* pendingURL (iOS) / initialURL (Android)
    sharedInstance,     \* iOS: a module instance exists
    hasListeners,       \* iOS: the instance is being observed
    incoming,           \* how many URLs the platform has handed over
    arrivals,           \* what became of each of them, in arrival order
    \* the Resolver
    configured,         \* the native SDK's isConfigured
    configureCalls,     \* the configs passed to NativeWarpLink.configure
    configureDone,      \* how many of them the native module has processed
    configureLog,       \* what each configure() call did, in call order
    activeConfig,       \* the config the native SDK runs with
    resolveCalls,       \* the URLs passed to NativeWarpLink.handleDeepLink
    \* getInitialDeepLink
    initialCalls,       \* one record per getInitialDeepLink call
    \* handleDeepLink, checkDeferredDeepLink, getAttributionResult, isConfigured
    calls,              \* one record per call of these
    throws,             \* listener callbacks that threw so far
    reentrant           \* calls made from inside a listener callback so far

vars == << emitter, listeners, nativeSubscription, emitterCreated, handlers,
           unsubs, resolutions, fan, invocations, unhandled, platform,
           initialURL, sharedInstance, hasListeners, incoming, configured,
           configureCalls, configureDone, configureLog, activeConfig,
           resolveCalls, initialCalls, throws, reentrant, arrivals, calls >>

multiplexerVars == << emitter, listeners, nativeSubscription, emitterCreated,
                      handlers, unsubs >>
dispatchVars    == << resolutions, fan, invocations, unhandled, throws,
                      reentrant >>
platformVars    == << platform, initialURL, sharedInstance, hasListeners,
                      incoming, arrivals >>
configureVars   == << configured, configureCalls, configureDone,
                      configureLog, activeConfig >>

NoEvent == [none |-> TRUE]
Idle == [phase |-> "idle", res |-> 0, event |-> NoEvent, idx |-> 0,
         running |-> FALSE]

\* the platform modules and the bookkeeping when the JavaScript bundle starts
Loaded ==
    /\ platform \in {"ios", "android"}
    \* Android reads the launching intent when the module is constructed;
    \* iOS is handed the launching URL through handleIncomingURL
    /\ initialURL \in IF platform = "android" THEN {Null, Str(UrlOf(0))}
                                              ELSE {Null}
    /\ resolutions = <<>>
    /\ fan = Idle
    /\ invocations = <<>>
    /\ unhandled = 0
    /\ incoming = 0
    /\ arrivals = <<>>
    /\ resolveCalls = <<>>
    /\ initialCalls = <<>>
    /\ calls = <<>>
    /\ throws = 0
    /\ reentrant = 0

\* src/WarpLink.ts as loaded: let emitter = null, new Set(), let
\* nativeSubscription = null; the iOS module object is not created yet
NoListeners ==
    /\ emitter = FALSE
    /\ listeners = <<>>
    /\ nativeSubscription = FALSE
    /\ emitterCreated = 0
    /\ handlers = 0
    /\ unsubs = <<>>
    /\ sharedInstance = FALSE
    /\ hasListeners = FALSE

\* the state after the modules are loaded, the Resolver apart
InitBridge == Loaded /\ NoListeners

\* configure() has not been called
Unconfigured ==
    /\ configured = FALSE
    /\ configureCalls = <<>>
    /\ configureDone = 0
    /\ configureLog = <<>>
    /\ activeConfig = Null

Init == InitBridge /\ Unconfigured

\* application code runs: from the event loop, or inside a listener callback
AppRuns == fan.phase = "idle" \/ (fan.running /\ reentrant < MaxReentrant)
\* the event loop is free to start a task
LoopIdle == fan.phase = "idle"
\* the native module object exists (iOS creates it on first use)
ModuleLoaded == platform = "android" \/ sharedInstance
\* the run may still make an onDeepLink call, and the platform may still
\* hand over a URL
MayRegister == Len(unsubs) < MaxRegs
MayPush == incoming < MaxPush
\* and may still call configure, and one of the promise-returning operations
MayConfigure == Len(configureLog) < MaxConfigure
MayCall == Len(calls) < MaxCalls

(***************************************************************************)
(* src/WarpLink.ts: onDeepLink and the unsubscribe closure it returns.     *)
(***************************************************************************)
\* a plausible slip: a new emitter made by every onDeepLink call
NeedsEmitterAlways(em) == TRUE

\* if (!emitter)
NeedsEmitter(em) == ~em

\* a plausible slip: the guard on the held subscription left out
NeedsSubscriptionAlways(sub) == TRUE

\* if (!nativeSubscription)
NeedsSubscription(sub) == ~sub

\* listeners.add(listener): a Set keeps one entry per callback, in insertion
\* order
SetAdd(ls, l) == IF l \in Range(ls) THEN ls ELSE Append(ls, l)

\* listeners.delete(listener)
SetDelete(ls, l) == IF l \in Range(ls) THEN RemoveAt(ls, IndexOf(ls, l)) ELSE ls

\* a plausible slip: the subscription is never removed
ShouldTearDownNever(ls, sub) == FALSE

\* a plausible slip: the size test left out
ShouldTearDownAlways(ls, sub) == sub

\* if (listeners.size === 0 && nativeSubscription)
ShouldTearDown(ls, sub) == Len(ls) = 0 /\ sub

\* a fresh record for one activation of resolveAndDispatch(url)
NewResolution(url) ==
    [ url |-> url,
      status |-> "pending",     \* pending, dispatching, fulfilled, rejected
      native |-> [none |-> TRUE],\* what the native promise settled with
      atSettle |-> {},          \* the listener set when the resolution settled
      event |-> [none |-> TRUE],\* the event built from the Resolver's answer
      removed |-> {},           \* unsubscribed while pending, not added again
      reentered |-> FALSE,      \* a callback subscribed or unsubscribed
      threw |-> FALSE ]         \* a callback threw

\* bookkeeping of one resolution when listener l is added (add = TRUE) or
\* taken out of the set (add = FALSE) by the application
NoteChange(res, l, add) ==
    CASE res.status = "pending" ->
             [res EXCEPT !.removed = IF add THEN @ \ {l} ELSE @ \cup {l}]
      [] res.status = "dispatching" -> [res EXCEPT !.reentered = TRUE]
      [] OTHER -> res

onDeepLink(l) ==
    /\ AppRuns
    /\ ModuleLoaded
    /\ emitter' = TRUE
    /\ emitterCreated' =
           IF NeedsEmitter(emitter) THEN emitterCreated + 1 ELSE emitterCreated
    /\ nativeSubscription' = TRUE
    /\ handlers' =
           IF NeedsSubscription(nativeSubscription) THEN handlers + 1
                                                    ELSE handlers
    \* RCTEventEmitter calls startObserving for the first handler
    /\ hasListeners' = IF platform = "ios" THEN TRUE ELSE hasListeners
    /\ listeners' = SetAdd(listeners, l)
    /\ unsubs' = Append(unsubs, [listener |-> l, called |-> FALSE])
    /\ resolutions' =
           [ r \in DOMAIN resolutions |-> NoteChange(resolutions[r], l, TRUE) ]
    /\ reentrant' = IF fan.running THEN reentrant + 1 ELSE reentrant
    /\ UNCHANGED << fan, invocations, unhandled, throws, platform, initialURL,
                    sharedInstance, incoming, arrivals, configureVars,
                    resolveCalls, initialCalls, calls >>

unsubscribe(k) ==
    /\ AppRuns
    /\ k \in DOMAIN unsubs
    /\ LET l    == unsubs[k].listener
           pos  == IndexOf(listeners, l)
           ls   == SetDelete(listeners, l)
           tear == ShouldTearDown(ls, nativeSubscription)
       IN /\ listeners' = ls
          /\ nativeSubscription' = IF tear THEN FALSE ELSE nativeSubscription
          /\ handlers' = IF tear THEN handlers - 1 ELSE handlers
          \* RCTEventEmitter calls stopObserving when the last handler goes
          /\ hasListeners' = IF platform = "ios" /\ tear /\ handlers - 1 <= 0
                             THEN FALSE ELSE hasListeners
          \* a Set iterator skips an entry deleted ahead of it and is not
          \* disturbed by one deleted behind it
          /\ fan' = IF fan.phase # "idle" /\ pos # 0 /\ pos <= fan.idx
                    THEN [fan EXCEPT !.idx = @ - 1] ELSE fan
          /\ resolutions' =
                 [ r \in DOMAIN resolutions |->
                     IF pos # 0 \/ resolutions[r].status = "dispatching"
                     THEN NoteChange(resolutions[r], l, FALSE)
                     ELSE resolutions[r] ]
    /\ unsubs' = [unsubs EXCEPT ![k].called = TRUE]
    /\ reentrant' = IF fan.running THEN reentrant + 1 ELSE reentrant
    /\ UNCHANGED << emitter, emitterCreated, invocations, unhandled, throws,
                    platform, initialURL, sharedInstance, incoming, arrivals,
                    configureVars, resolveCalls, initialCalls, calls >>

(***************************************************************************)
(* The platform modules: URLs arriving while the app runs.                 *)
(***************************************************************************)
\* NativeEventEmitter delivers one event: every registered handler runs
\* handleNativeDeepLinkEvent, which starts resolveAndDispatch(url) and
\* returns at its await of NativeWarpLink.handleDeepLink(url)
Emit(url) ==
    LET n == IF handlers > 0 THEN handlers ELSE 0
    IN /\ resolutions' = resolutions \o [ i \in 1..n |-> NewResolution(url) ]
       /\ resolveCalls' = resolveCalls \o [ i \in 1..n |-> url ]

\* the record kept of one arriving URL: whether it arrived when unsubscribe
\* calls had emptied the listener set
Arrival(url) ==
    [ url |-> url,
      afterLast |-> /\ Len(listeners) = 0
                    /\ \E k \in DOMAIN unsubs : unsubs[k].called ]

\* ios/WarpLinkModule.swift: init()
iosInit ==
    /\ platform = "ios"
    /\ ~sharedInstance
    /\ sharedInstance' = TRUE
    /\ UNCHANGED << multiplexerVars, dispatchVars, platform, initialURL,
                    hasListeners, incoming, arrivals, configureVars,
                    resolveCalls, initialCalls, calls >>

\* a plausible slip: the URL kept in pendingURL also when it was emitted
handleIncomingURLAlwaysStored ==
    /\ platform = "ios"
    /\ LoopIdle
    /\ incoming' = incoming + 1
    /\ arrivals' = Append(arrivals, Arrival(UrlOf(incoming + 1)))
    /\ initialURL' = Str(UrlOf(incoming + 1))
    /\ IF sharedInstance /\ hasListeners
       THEN Emit(UrlOf(incoming + 1))
       ELSE UNCHANGED << resolutions, resolveCalls >>
    /\ UNCHANGED << multiplexerVars, fan, invocations, unhandled, throws, reentrant,
                    platform, sharedInstance, hasListeners, configureVars,
                    initialCalls, calls >>

\* ios/WarpLinkModule.swift: handleIncomingURL(_:)
handleIncomingURL ==
    /\ platform = "ios"
    /\ LoopIdle
    /\ incoming' = incoming + 1
    /\ arrivals' = Append(arrivals, Arrival(UrlOf(incoming + 1)))
    /\ IF sharedInstance /\ hasListeners
       THEN /\ Emit(UrlOf(incoming + 1))
            /\ initialURL' = initialURL
       ELSE /\ initialURL' = Str(UrlOf(incoming + 1))
            /\ UNCHANGED << resolutions, resolveCalls >>
    /\ UNCHANGED << multiplexerVars, fan, invocations, unhandled, throws, reentrant,
                    platform, sharedInstance, hasListeners, configureVars,
                    initialCalls, calls >>

\* android WarpLinkModule.kt: onNewIntent(intent)
onNewIntent ==
    /\ platform = "android"
    /\ LoopIdle
    /\ incoming' = incoming + 1
    /\ arrivals' = Append(arrivals, Arrival(UrlOf(incoming + 1)))
    /\ Emit(UrlOf(incoming + 1))
    /\ UNCHANGED << multiplexerVars, fan, invocations, unhandled, throws, reentrant,
                    platform, initialURL, sharedInstance, hasListeners,
                    configureVars, initialCalls, calls >>

(***************************************************************************)
(* src/WarpLink.ts: resolveAndDispatch after its await.                    *)
(***************************************************************************)
\* the event resolveAndDispatch fans out for a Resolver outcome; NoEvent when
\* the answer normalizes to null and nothing is delivered
\* a plausible slip: the test if (deepLink) left out
DispatchEventUnguarded(o) ==
    IF o.ok
    THEN [deepLink |-> deserializeDeepLink(o.value)]
    ELSE [error |-> mapNativeError(o.value)]

\* a plausible slip: a null link reported to the listeners as a failure
DispatchEventNoMatchAsError(o) ==
    IF o.ok /\ deserializeDeepLink(o.value) # Null
    THEN [deepLink |-> deserializeDeepLink(o.value)]
    ELSE [error |-> mapNativeError(o.value)]

\* the event resolveAndDispatch builds from the settled native promise, if
\* it builds one
DispatchEvent(o) ==
    IF o.ok
    THEN LET deepLink == deserializeDeepLink(o.value)
         IN IF deepLink # Null THEN [deepLink |-> deepLink] ELSE NoEvent
    ELSE [error |-> mapNativeError(o.value)]

\* what a throwing listener callback throws
ListenerFailure == ErrorObj("Error", Undefined, "listener failed")

\* NativeWarpLink.handleDeepLink(url) settles and resolveAndDispatch resumes
settleResolve(r, o) ==
    /\ LoopIdle
    /\ r \in DOMAIN resolutions
    /\ resolutions[r].status = "pending"
    /\ LET ev == DispatchEvent(o)
       IN /\ resolutions' =
                 [resolutions EXCEPT ![r] =
                     [@ EXCEPT !.status = IF ev = NoEvent THEN "fulfilled"
                                                          ELSE "dispatching",
                               !.native = o,
                               !.atSettle = Range(listeners),
                               !.event = ev]]
          /\ fan' = IF ev = NoEvent THEN Idle
                    ELSE [ phase |-> IF o.ok THEN "try" ELSE "catch",
                           res |-> r, event |-> ev, idx |-> 0,
                           running |-> FALSE ]
    /\ UNCHANGED << multiplexerVars, invocations, unhandled, throws, reentrant,
                    platformVars, configureVars, resolveCalls, initialCalls, calls >>

\* a plausible slip: the loop calls the first entry every time round
NextListenerFirst(ls, idx) == ls[1]

\* the entry the Set iterator yields after idx entries
NextListener(ls, idx) == ls[idx + 1]

\* for (const listener of listeners) listener(event): the next entry of the
\* live Set is called
fanNext ==
    /\ fan.phase # "idle"
    /\ ~fan.running
    /\ fan.idx < Len(listeners)
    /\ invocations' = Append(invocations,
           [ res |-> fan.res, listener |-> NextListener(listeners, fan.idx),
             event |-> fan.event ])
    /\ fan' = [fan EXCEPT !.idx = @ + 1, !.running = TRUE]
    /\ UNCHANGED << multiplexerVars, resolutions, unhandled, throws, reentrant,
                    platformVars, configureVars, resolveCalls, initialCalls, calls >>

\* the running callback returns
listenerReturn ==
    /\ fan.running
    /\ fan' = [fan EXCEPT !.running = FALSE]
    /\ UNCHANGED << multiplexerVars, resolutions, invocations, unhandled,
                    throws, reentrant, platformVars, configureVars, resolveCalls,
                    initialCalls, calls >>

\* the running callback throws: inside the try block the catch clause takes
\* over and fans the mapped error out; inside the catch clause the promise of
\* resolveAndDispatch is rejected, and handleNativeDeepLinkEvent dropped it
listenerThrow ==
    /\ fan.running
    /\ throws < MaxThrows
    /\ throws' = throws + 1
    /\ IF fan.phase = "try"
       THEN /\ fan' = [fan EXCEPT !.phase = "catch",
                                  !.event = [error |-> mapNativeError(ListenerFailure)],
                                  !.idx = 0, !.running = FALSE]
            /\ resolutions' = [resolutions EXCEPT ![fan.res].threw = TRUE]
            /\ UNCHANGED unhandled
       ELSE /\ fan' = Idle
            /\ resolutions' = [resolutions EXCEPT ![fan.res].threw = TRUE,
                                                  ![fan.res].status = "rejected"]
            /\ unhandled' = unhandled + 1
    /\ UNCHANGED << multiplexerVars, invocations, reentrant, platformVars,
                    configureVars, resolveCalls, initialCalls, calls >>

\* the loop has passed the last entry: resolveAndDispatch returns
fanEnd ==
    /\ fan.phase # "idle"
    /\ ~fan.running
    /\ fan.idx >= Len(listeners)
    /\ fan' = Idle
    /\ resolutions' = [resolutions EXCEPT ![fan.res].status = "fulfilled"]
    /\ UNCHANGED << multiplexerVars, invocations, unhandled, throws, reentrant,
                    platformVars, configureVars, resolveCalls, initialCalls, calls >>

(***************************************************************************)
(* src/WarpLink.ts: configure.                                             *)
(***************************************************************************)
\* an API key is a string, kept as its sequence of characters
Key(chars) == [t |-> "key", chars |-> chars]

Lower == { "a", "b", "c", "d", "e", "f", "g", "h", "i", "j", "k", "l", "m",
           "n", "o", "p", "q", "r", "s", "t", "u", "v", "w", "x", "y", "z" }
Upper == { "A", "B", "C", "D", "E", "F", "G", "H", "I", "J", "K", "L", "M",
           "N", "O", "P", "Q", "R", "S", "T", "U", "V", "W", "X", "Y", "Z" }
Digit == { "0", "1", "2", "3", "4", "5", "6", "7", "8", "9" }

\* the {32} of API_KEY_PATTERN
KeySuffixLen == 32

\* the characters before the suffix: wl_ + live|test + _
KeyPrefixLen == 8

\* a plausible slip: the pattern left unanchored at its end
API_KEY_PATTERN_unanchored(chars) ==
    /\ Len(chars) >= KeyPrefixLen + KeySuffixLen
    /\ SubSeq(chars, 1, 3) = <<"w", "l", "_">>
    /\ SubSeq(chars, 4, 7) \in { <<"l", "i", "v", "e">>, <<"t", "e", "s", "t">> }
    /\ chars[KeyPrefixLen] = "_"
    /\ \A i \in (KeyPrefixLen + 1)..(KeyPrefixLen + KeySuffixLen) :
          chars[i] \in Lower \cup Upper \cup Digit

\* API_KEY_PATTERN.test(chars): /^wl_(live|test)_[a-zA-Z0-9]{32}$/
API_KEY_PATTERN(chars) ==
    /\ Len(chars) = KeyPrefixLen + KeySuffixLen
    /\ SubSeq(chars, 1, 3) = <<"w", "l", "_">>
    /\ SubSeq(chars, 4, 7) \in { <<"l", "i", "v", "e">>, <<"t", "e", "s", "t">> }
    /\ chars[KeyPrefixLen] = "_"
    /\ \A i \in (KeyPrefixLen + 1)..(KeyPrefixLen + KeySuffixLen) :
          chars[i] \in Lower \cup Upper \cup Digit

\* !options.apiKey || !API_KEY_PATTERN.test(options.apiKey)
KeyRejected(apiKey) ==
    \/ apiKey.t # "key"
    \/ apiKey.chars = <<>>
    \/ ~API_KEY_PATTERN(apiKey.chars)

OptionNames == {"apiEndpoint", "debugLogging", "matchWindowHours"}

\* a plausible slip: every option is copied, supplied or not
BuildConfigAll(options) ==
    [ k \in {"apiKey"} \cup OptionNames |-> options[k] ]

\* the config object configure() builds: apiKey, and each option that is not
\* undefined
BuildConfig(options) ==
    [ k \in {"apiKey"} \cup { n \in OptionNames : options[n] # Undefined }
        |-> options[k] ]

InvalidKeyMessage ==
    "Invalid API key format. Expected: wl_live_xxx or wl_test_xxx (32 alphanumeric characters after prefix)"

\* configure(options): returns, or throws synchronously
configure(options) ==
    /\ LoopIdle
    /\ ModuleLoaded
    /\ IF KeyRejected(options.apiKey)
       THEN /\ configureLog' = Append(configureLog,
                   [ options |-> options,
                     threw |-> WarpLinkError("E_INVALID_API_KEY_FORMAT",
                                             InvalidKeyMessage),
                     calls |-> 0 ])
            /\ UNCHANGED configureCalls
       ELSE /\ configureLog' = Append(configureLog,
                   [ options |-> options, threw |-> Null, calls |-> 1 ])
            /\ configureCalls' = Append(configureCalls, BuildConfig(options))
    /\ UNCHANGED << multiplexerVars, dispatchVars, platformVars, configured,
                    configureDone, activeConfig, resolveCalls, initialCalls, calls >>

\* the native module's configure runs for the oldest call not yet processed
\* and the SDK accepts it: WarpLink.configure(...), then resolve(nil)
nativeConfigureResolve ==
    /\ LoopIdle
    /\ configureDone < Len(configureCalls)
    /\ configureDone' = configureDone + 1
    /\ configured' = TRUE
    /\ activeConfig' = configureCalls[configureDone + 1]
    /\ UNCHANGED << multiplexerVars, dispatchVars, platformVars,
                    configureCalls, configureLog, resolveCalls, initialCalls, calls >>

\* android WarpLinkModule.kt: configure catches an exception and rejects; the
\* handler configure() attached with .catch rethrows the mapped error, and
\* nothing handles the promise .catch returned
nativeConfigureReject ==
    /\ LoopIdle
    /\ platform = "android"
    /\ configureDone < Len(configureCalls)
    /\ configureDone' = configureDone + 1
    /\ unhandled' = unhandled + 1
    /\ UNCHANGED << multiplexerVars, resolutions, fan, invocations, throws,
                    reentrant, platformVars, configured, configureCalls,
                    configureLog, activeConfig, resolveCalls, initialCalls, calls >>

(***************************************************************************)
(* src/WarpLink.ts: getInitialDeepLink, and getInitialURL of the platform  *)
(* modules.                                                                *)
(***************************************************************************)
\* getInitialDeepLink() is called and suspends at NativeWarpLink.getInitialURL()
getInitialDeepLink ==
    /\ LoopIdle
    /\ ModuleLoaded
    /\ Len(initialCalls) < MaxInitialCalls
    /\ initialCalls' = Append(initialCalls,
           [ status |-> "awaitURL", url |-> Null, native |-> Undefined,
             value |-> Undefined ])
    /\ UNCHANGED << multiplexerVars, dispatchVars, platformVars,
                    configureVars, resolveCalls, calls >>

\* a plausible slip: the slot is read and left as it is
SlotAfterReadKept(slot) == slot

\* getInitialURL of both platform modules: the slot is cleared by the read
SlotAfterRead(slot) == Null

\* the native getInitialURL runs for call c and getInitialDeepLink resumes:
\* no URL, it returns null; a URL, it calls this.handleDeepLink(url)
nativeGetInitialURL(c) ==
    /\ LoopIdle
    /\ c \in DOMAIN initialCalls
    /\ initialCalls[c].status = "awaitURL"
    /\ \A b \in 1..(c - 1) : initialCalls[b].status # "awaitURL"
    /\ initialURL' = SlotAfterRead(initialURL)
    /\ IF IsNullish(initialURL)
       THEN /\ initialCalls' = [initialCalls EXCEPT
                   ![c] = [status |-> "returned", url |-> Null,
                           native |-> Undefined, value |-> Null]]
            /\ UNCHANGED resolveCalls
       ELSE /\ initialCalls' = [initialCalls EXCEPT
                   ![c] = [status |-> "awaitResolve", url |-> initialURL,
                           native |-> Undefined, value |-> Undefined]]
            /\ resolveCalls' = Append(resolveCalls, initialURL.s)
    /\ UNCHANGED << multiplexerVars, dispatchVars, platform, sharedInstance,
                    hasListeners, incoming, arrivals, configureVars, calls >>

\* a plausible slip: the cold-start resolution held back while a pushed URL
\* is being resolved
settleInitialAfterPush(c, o) ==
    /\ LoopIdle
    /\ \A r \in DOMAIN resolutions : resolutions[r].status # "pending"
    /\ c \in DOMAIN initialCalls
    /\ initialCalls[c].status = "awaitResolve"
    /\ initialCalls' = [initialCalls EXCEPT ![c] =
           IF o.ok
           THEN [@ EXCEPT !.status = "returned", !.native = o.value,
                          !.value = deserializeDeepLink(o.value)]
           ELSE [@ EXCEPT !.status = "rejected", !.native = o.value,
                          !.value = mapNativeError(mapNativeError(o.value))]]
    /\ UNCHANGED << multiplexerVars, dispatchVars, platformVars,
                    configureVars, resolveCalls, calls >>

\* NativeWarpLink.handleDeepLink(url) settles for call c: handleDeepLink
\* returns the normalized link or throws the mapped error, which the catch
\* clause of getInitialDeepLink maps once more
settleInitial(c, o) ==
    /\ LoopIdle
    /\ c \in DOMAIN initialCalls
    /\ initialCalls[c].status = "awaitResolve"
    /\ initialCalls' = [initialCalls EXCEPT ![c] =
           IF o.ok
           THEN [@ EXCEPT !.status = "returned", !.native = o.value,
                          !.value = deserializeDeepLink(o.value)]
           ELSE [@ EXCEPT !.status = "rejected", !.native = o.value,
                          !.value = mapNativeError(mapNativeError(o.value))]]
    /\ UNCHANGED << multiplexerVars, dispatchVars, platformVars,
                    configureVars, resolveCalls, calls >>

(***************************************************************************)
(* src/WarpLink.ts: handleDeepLink, checkDeferredDeepLink,                 *)
(* getAttributionResult, isConfigured.  Each awaits one native promise and *)
(* returns the normalized value or throws the mapped rejection.            *)
(***************************************************************************)
Ops == { "handleDeepLink", "checkDeferredDeepLink", "getAttributionResult",
         "isConfigured" }

\* the URL the application passes to handleDeepLink
AppUrl == "https://aplnk.to/app"

\* what the operation returns for the value the native promise fulfilled with
Normalize(op, v) ==
    CASE op = "isConfigured"         -> v
      [] op = "getAttributionResult" -> deserializeAttributionResult(v)
      [] OTHER                       -> deserializeDeepLink(v)

\* what the platform modules settle the native promise of op with
NativeOutcomes(op, isConf) ==
    CASE op = "isConfigured" -> { Fulfil(Bool(isConf)) }
      [] op = "getAttributionResult" ->
            IF ~isConf
            THEN { Reject(NativeError("E_NOT_CONFIGURED", "SDK not configured")) }
            ELSE { Fulfil(RawLink(AppUrl)), Fulfil(Null) }
      [] OTHER -> HandleDeepLinkOutcomes(AppUrl, isConf)

\* a plausible slip: the native call made again after the first
NativeCallsTwice(op) ==
    << IF op = "handleDeepLink" THEN AppUrl ELSE op,
       IF op = "handleDeepLink" THEN AppUrl ELSE op >>

\* the native calls one invocation of op makes: NativeWarpLink.<op>(), once;
\* logged by the URL for handleDeepLink and by the method name otherwise
NativeCalls(op) == << IF op = "handleDeepLink" THEN AppUrl ELSE op >>

\* a plausible slip: handleDeepLink routed through resolveAndDispatch, so
\* that its result goes to the listeners as well
callNotifying(op) ==
    /\ LoopIdle
    /\ ModuleLoaded
    /\ calls' = Append(calls, [ op |-> op, status |-> "pending",
                                native |-> Undefined, value |-> Undefined,
                                queuedAfter |-> Len(configureCalls) ])
    /\ resolveCalls' = resolveCalls \o NativeCalls(op)
    /\ resolutions' = IF op = "handleDeepLink"
                      THEN Append(resolutions, NewResolution(AppUrl))
                      ELSE resolutions
    /\ UNCHANGED << multiplexerVars, fan, invocations, unhandled, throws,
                    reentrant, platformVars, configureVars, initialCalls >>

\* the operation is called and suspends at its native call
call(op) ==
    /\ LoopIdle
    /\ ModuleLoaded
    /\ calls' = Append(calls, [ op |-> op, status |-> "pending",
                                native |-> Undefined, value |-> Undefined,
                                queuedAfter |-> Len(configureCalls) ])
    /\ resolveCalls' = resolveCalls \o NativeCalls(op)
    /\ UNCHANGED << multiplexerVars, dispatchVars, platformVars,
                    configureVars, initialCalls >>

\* the native promise of call c settles with outcome o and the operation
\* resumes: return of the try block, or throw mapNativeError(error)
settleCall(c, o) ==
    /\ LoopIdle
    /\ c \in DOMAIN calls
    /\ calls[c].status = "pending"
    /\ calls' = [calls EXCEPT ![c] =
           IF o.ok
           THEN [@ EXCEPT !.status = "returned", !.native = o.value,
                          !.value = Normalize(calls[c].op, o.value)]
           ELSE [@ EXCEPT !.status = "rejected", !.native = o.value,
                          !.value = mapNativeError(o.value)]]
    /\ UNCHANGED << multiplexerVars, dispatchVars, platformVars,
                    configureVars, resolveCalls, initialCalls >>

(***************************************************************************)
(* The specification of the whole bridge.                                  *)
(***************************************************************************)
\* one character repeated n times
Rep(ch, n) == [ i \in 1..n |-> ch ]

LivePrefix == <<"w", "l", "_", "l", "i", "v", "e", "_">>
TestPrefix == <<"w", "l", "_", "t", "e", "s", "t", "_">>
ProdPrefix == <<"w", "l", "_", "p", "r", "o", "d", "_">>

Options(apiKey, apiEndpoint, debugLogging, matchWindowHours) ==
    [ apiKey |-> apiKey, apiEndpoint |-> apiEndpoint,
      debugLogging |-> debugLogging, matchWindowHours |-> matchWindowHours ]

\* the options the application configures with in the whole-bridge runs
SomeOptions ==
    { Options(Key(LivePrefix \o Rep("a", KeySuffixLen)), Undefined, Undefined,
              Undefined),
      Options(Key(ProdPrefix \o Rep("a", KeySuffixLen)), Undefined, Undefined,
              Undefined) }

\* the options of a configure() call that went through
GoodOptions ==
    Options(Key(LivePrefix \o Rep("a", KeySuffixLen)), Undefined, Undefined,
            Undefined)

\* configure(GoodOptions) was called once and the native module accepted it
ConfiguredOnce ==
    /\ configured = TRUE
    /\ configureCalls = << BuildConfig(GoodOptions) >>
    /\ configureDone = 1
    /\ configureLog = << [options |-> GoodOptions, threw |-> Null, calls |-> 1] >>
    /\ activeConfig = BuildConfig(GoodOptions)

Next ==
    \/ \E l \in Listeners : MayRegister /\ onDeepLink(l)
    \/ \E k \in 1..MaxRegs : unsubscribe(k)
    \/ iosInit
    \/ MayPush /\ handleIncomingURL
    \/ MayPush /\ onNewIntent
    \/ \E r \in 1..Len(resolutions) :
          \E o \in HandleDeepLinkOutcomes(resolutions[r].url, configured) :
             settleResolve(r, o)
    \/ fanNext
    \/ listenerReturn
    \/ listenerThrow
    \/ fanEnd
    \/ \E options \in SomeOptions : MayConfigure /\ configure(options)
    \/ nativeConfigureResolve
    \/ nativeConfigureReject
    \/ getInitialDeepLink
    \/ \E c \in 1..Len(initialCalls) : nativeGetInitialURL(c)
    \/ \E c \in 1..Len(initialCalls) :
          \E o \in HandleDeepLinkOutcomes(JsString(initialCalls[c].url),
                                          configured) :
             settleInitial(c, o)
    \/ \E op \in Ops : MayCall /\ call(op)
    \/ \E c \in 1..Len(calls) :
          \E o \in NativeOutcomes(calls[c].op, configured) : settleCall(c, o)

Spec == Init /\ [][Next]_vars

(***************************************************************************)
(* The event multiplexer with well-behaved listeners: every callback       *)
(* returns normally and calls nothing.  Started before or after a          *)
(* successful configure(), with no launching URL.                          *)
(***************************************************************************)
InitMultiplexer ==
    /\ InitBridge
    /\ initialURL = Null
    /\ Unconfigured \/ ConfiguredOnce

NextMultiplexer ==
    \/ \E l \in Listeners : MayRegister /\ LoopIdle /\ onDeepLink(l)
    \/ \E k \in 1..MaxRegs : LoopIdle /\ unsubscribe(k)
    \/ iosInit
    \/ MayPush /\ handleIncomingURL
    \/ MayPush /\ onNewIntent
    \/ \E r \in 1..Len(resolutions) :
          \E o \in HandleDeepLinkOutcomes(resolutions[r].url, configured) :
             settleResolve(r, o)
    \/ fanNext
    \/ listenerReturn
    \/ fanEnd

SpecMultiplexer == InitMultiplexer /\ [][NextMultiplexer]_vars

(***************************************************************************)
(* The event multiplexer with arbitrary listeners: a callback may throw,   *)
(* and may call onDeepLink and unsubscribe functions before it returns.    *)
(***************************************************************************)
NextCallbacks ==
    \/ \E l \in Listeners : MayRegister /\ onDeepLink(l)
    \/ \E k \in 1..MaxRegs : unsubscribe(k)
    \/ iosInit
    \/ MayPush /\ handleIncomingURL
    \/ MayPush /\ onNewIntent
    \/ \E r \in 1..Len(resolutions) :
          \E o \in HandleDeepLinkOutcomes(resolutions[r].url, configured) :
             settleResolve(r, o)
    \/ fanNext
    \/ listenerReturn
    \/ listenerThrow
    \/ fanEnd

SpecCallbacks == InitMultiplexer /\ [][NextCallbacks]_vars

(***************************************************************************)
(* Pushed URLs arriving while earlier resolutions are pending, with        *)
(* callbacks that may call onDeepLink and unsubscribe functions before     *)
(* they return.                                                            *)
(***************************************************************************)
NextConcurrent ==
    \/ \E l \in Listeners : Len(unsubs) < MaxRegsInFlight /\ onDeepLink(l)
    \/ \E k \in 1..MaxRegsInFlight : unsubscribe(k)
    \/ iosInit
    \/ incoming < MaxInFlight /\ handleIncomingURL
    \/ incoming < MaxInFlight /\ onNewIntent
    \/ \E r \in 1..Len(resolutions) :
          \E o \in HandleDeepLinkOutcomes(resolutions[r].url, configured) :
             settleResolve(r, o)
    \/ fanNext
    \/ listenerReturn
    \/ fanEnd

SpecConcurrent == InitMultiplexer /\ [][NextConcurrent]_vars

\* the Resolver settles a pending resolution
ResolverSettles ==
    \E r \in 1..Len(resolutions) :
       \E o \in HandleDeepLinkOutcomes(resolutions[r].url, configured) :
          settleResolve(r, o)

\* the multiplexer with arbitrary listeners, where the Resolver settles
\* every call, a callback that was called ends (it returns or it throws),
\* and resolveAndDispatch runs on once the promise has settled
FairCallbacks ==
    /\ SpecCallbacks
    /\ WF_vars(ResolverSettles)
    /\ WF_vars(fanNext)
    /\ WF_vars(listenerReturn \/ listenerThrow)
    /\ WF_vars(fanEnd)

(***************************************************************************)
(* The multiplexer together with the cold-start path: getInitialDeepLink   *)
(* and the slot the platform modules keep a URL in.                        *)
(***************************************************************************)
InitColdStart == InitBridge /\ (Unconfigured \/ ConfiguredOnce)

NextColdStart ==
    \/ \E l \in Listeners : MayRegister /\ LoopIdle /\ onDeepLink(l)
    \/ \E k \in 1..MaxRegs : LoopIdle /\ unsubscribe(k)
    \/ iosInit
    \/ MayPush /\ handleIncomingURL
    \/ MayPush /\ onNewIntent
    \/ \E r \in 1..Len(resolutions) :
          \E o \in HandleDeepLinkOutcomes(resolutions[r].url, configured) :
             settleResolve(r, o)
    \/ fanNext
    \/ listenerReturn
    \/ fanEnd
    \/ getInitialDeepLink
    \/ \E c \in 1..Len(initialCalls) : nativeGetInitialURL(c)
    \/ \E c \in 1..Len(initialCalls) :
          \E o \in HandleDeepLinkOutcomes(JsString(initialCalls[c].url),
                                          configured) :
             settleInitial(c, o)

SpecColdStart == InitColdStart /\ [][NextColdStart]_vars

(***************************************************************************)
(* configure() over a range of API keys and options, called with no        *)
(* listener registered or with one.                                        *)
(***************************************************************************)
\* the state of the multiplexer after one onDeepLink("l1")
SubscribedOnce ==
    /\ emitter = TRUE
    /\ listeners = << "l1" >>
    /\ nativeSubscription = TRUE
    /\ emitterCreated = 1
    /\ handlers = 1
    /\ unsubs = << [listener |-> "l1", called |-> FALSE] >>
    /\ sharedInstance = (platform = "ios")
    /\ hasListeners = (platform = "ios")

Alnum == << "a", "Z", "0", "9" >>

\* n characters drawn in turn from seq
Cycle(seq, n) == [ i \in 1..n |-> seq[((i - 1) % Len(seq)) + 1] ]

\* API keys: well-formed ones, and ones wrong in prefix, length or alphabet
SomeKeys ==
    { Key(LivePrefix \o Rep("a", KeySuffixLen)),
      Key(TestPrefix \o Cycle(Alnum, KeySuffixLen)),
      Key(ProdPrefix \o Rep("a", KeySuffixLen)),
      Key(<<"W", "L", "_">> \o SubSeq(LivePrefix, 4, 8) \o Rep("a", KeySuffixLen)),
      Key(Rep("a", KeySuffixLen)),
      Key(LivePrefix \o Rep("a", KeySuffixLen - 1)),
      Key(LivePrefix \o Rep("a", KeySuffixLen + 1)),
      Key(TestPrefix \o Rep("a", KeySuffixLen - 1) \o <<"-">>),
      Key(<<" ">> \o LivePrefix \o Rep("a", KeySuffixLen)),
      Key(<<>>),
      Undefined }

\* the options of configure() calls: none, some, all, with falsy values
WideOptions ==
    { Options(key, endpoint, debug, hours) :
        key \in SomeKeys,
        endpoint \in { Undefined, Str("https://api.example.com") },
        debug \in { Undefined, Bool(FALSE) },
        hours \in { Undefined, Num(0) } }

InitConfigure == Loaded /\ (NoListeners \/ SubscribedOnce) /\ Unconfigured

NextConfigure ==
    \/ iosInit
    \/ \E options \in WideOptions : MayConfigure /\ configure(options)
    \/ nativeConfigureResolve
    \/ nativeConfigureReject

SpecConfigure == InitConfigure /\ [][NextConfigure]_vars

(***************************************************************************)
(* handleDeepLink, checkDeferredDeepLink, getAttributionResult and          *)
(* isConfigured, their native promises settling with any value: what a     *)
(* platform module sends, and what it does not.                            *)
(***************************************************************************)
\* values a native promise may reject with: Error instances with a known
\* code, an unknown one, an empty one, a number or null for a code, or none;
\* an instance of a subclass; a typed error; plain objects; primitives
RejectedValues ==
    { ErrorObj("Error", code, "boom") :
        code \in { Str(c) : c \in ErrorCodes }
                 \cup { Str("E_CUSTOM"), Str(""), Undefined, Null, Num(7) } }
    \cup { ErrorObj("TypeError", Undefined, "x is not a function"),
           WarpLinkError("E_LINK_NOT_FOUND", "Link not found"),
           Obj([ code |-> Str("E_NETWORK_ERROR"), message |-> Str("offline") ]),
           Obj([ message |-> Str("offline") ]),
           Str("timeout"), Num(404), Null, Undefined, Bool(FALSE) }

AnyOutcomes ==
    { Fulfil(v) : v \in { RawLink(AppUrl), Null, Bool(TRUE) } }
    \cup { Reject(e) : e \in RejectedValues }

NextErrors ==
    \/ iosInit
    \/ \E op \in Ops : MayCall /\ call(op)
    \/ \E c \in 1..Len(calls) : \E o \in AnyOutcomes : settleCall(c, o)

SpecErrors == Init /\ [][NextErrors]_vars

(***************************************************************************)
(* The response normalizers on whatever a native promise may resolve to:   *)
(* complete, partial and malformed payloads, and values that are not       *)
(* objects.                                                                *)
(***************************************************************************)
\* fields without the property k
Without(fields, k) == [ x \in DOMAIN fields \ {k} |-> fields[x] ]

\* fields with the property k set to v
With(fields, k, v) ==
    [ x \in DOMAIN fields \cup {k} |-> IF x = k THEN v ELSE fields[x] ]

\* a payload with every property the normalizers read, of the right type
FullFields ==
    [ linkId |-> Str("lnk_1"),
      destination |-> Str("https://example.com/p"),
      deepLinkUrl |-> Str("app://p"),
      customParams |-> Obj([ ref |-> Str("ad") ]),
      isDeferred |-> Bool(TRUE),
      matchType |-> Str("probabilistic"),
      matchConfidence |-> Num(0),
      installId |-> Str("inst_1") ]

\* values a property may hold in place of the expected one
OddValues ==
    { Null, Undefined, Str(""), Str("unknown"), Num(0), Num(7), Bool(TRUE),
      Obj(<<>>) }

MatchTypeValues ==
    { Str("deterministic"), Str("probabilistic"), Str("Deterministic"), Null }

ConfidenceValues == { Num(0), Num(1), Str("1"), Null }

RawPayloads ==
    { Null, Undefined, Str("link"), Num(0), Bool(TRUE) }
    \cup { Obj(FullFields), Obj(<<>>) }
    \cup { Obj(Without(FullFields, k)) : k \in DOMAIN FullFields }
    \cup { Obj(With(FullFields, k, v)) : k \in DOMAIN FullFields, v \in OddValues }
    \cup { Obj(With(With(FullFields, "matchType", m), "matchConfidence", c)) :
             m \in MatchTypeValues, c \in ConfidenceValues }
    \cup { Obj(Without(With(FullFields, "matchType", m), "matchConfidence")) :
             m \in MatchTypeValues }

NextNormalize ==
    \/ iosInit
    \/ \E op \in Ops : MayCall /\ call(op)
    \/ \E c \in 1..Len(calls) : \E v \in RawPayloads : settleCall(c, Fulfil(v))

SpecNormalize == Init /\ [][NextNormalize]_vars

(***************************************************************************)
(* The operations before configure(): no listener or one, a launching URL  *)
(* or none, and the native module never configured.                        *)
(***************************************************************************)
InitUnconfigured == Loaded /\ (NoListeners \/ SubscribedOnce) /\ Unconfigured

NextUnconfigured ==
    \/ iosInit
    \/ MayPush /\ handleIncomingURL
    \/ MayPush /\ onNewIntent
    \/ \E r \in 1..Len(resolutions) :
          \E o \in HandleDeepLinkOutcomes(resolutions[r].url, configured) :
             settleResolve(r, o)
    \/ fanNext
    \/ listenerReturn
    \/ fanEnd
    \/ \E op \in Ops : MayCall /\ call(op)
    \/ \E c \in 1..Len(calls) :
          \E o \in NativeOutcomes(calls[c].op, configured) : settleCall(c, o)
    \/ getInitialDeepLink
    \/ \E c \in 1..Len(initialCalls) : nativeGetInitialURL(c)
    \/ \E c \in 1..Len(initialCalls) :
          \E o \in HandleDeepLinkOutcomes(JsString(initialCalls[c].url),
                                          configured) :
             settleInitial(c, o)

SpecUnconfigured == InitUnconfigured /\ [][NextUnconfigured]_vars

(***************************************************************************)
(* The configuration lifecycle: configure() called with valid and invalid  *)
(* keys, again when already configured, and the promise-returning          *)
(* operations before and after.  The bridge hands the calls of one module  *)
(* to it in the order they were made.                                      *)
(***************************************************************************)
LifecycleOptions ==
    SomeOptions
    \cup { Options(Key(TestPrefix \o Rep("b", KeySuffixLen)),
                   Str("https://api.example.com"), Undefined, Undefined) }

\* the native module has run every configure call made before call c
NativeReached(c) == configureDone >= calls[c].queuedAfter

NextLifecycle ==
    \/ iosInit
    \/ \E options \in LifecycleOptions :
          Len(configureLog) < MaxReconfigure /\ configure(options)
    \/ nativeConfigureResolve
    \/ nativeConfigureReject
    \/ \E op \in Ops : MayCall /\ call(op)
    \/ \E c \in 1..Len(calls) :
          \E o \in NativeOutcomes(calls[c].op, configured) :
             NativeReached(c) /\ settleCall(c, o)

SpecLifecycle == Init /\ [][NextLifecycle]_vars

(***************************************************************************)
(* The cold-start path on its own: no listener is registered, the platform *)
(* may hand over a URL, and getInitialDeepLink is called.                  *)
(***************************************************************************)
\* what the native handleDeepLink settles with for the launching URL: as for
\* any URL, or a link payload with nothing but its id
InitialOutcomes(url, isConf) ==
    HandleDeepLinkOutcomes(url, isConf)
    \cup IF isConf THEN { Fulfil(Obj([ linkId |-> Str(url) ])) } ELSE {}

NextInitial ==
    \/ iosInit
    \/ MayPush /\ handleIncomingURL
    \/ MayPush /\ onNewIntent
    \/ getInitialDeepLink
    \/ \E c \in 1..Len(initialCalls) : nativeGetInitialURL(c)
    \/ \E c \in 1..Len(initialCalls) :
          \E o \in InitialOutcomes(JsString(initialCalls[c].url), configured) :
             settleInitial(c, o)

SpecInitial == InitColdStart /\ [][NextInitial]_vars

(***************************************************************************)
(* The operations of a configured SDK with one listener registered: the    *)
(* promise-returning operations called one after another or together, and  *)
(* URLs pushed by the platform.                                            *)
(***************************************************************************)
InitOperations ==
    Loaded /\ initialURL = Null /\ SubscribedOnce /\ ConfiguredOnce

\* the run may still start an operation: a call or a pushed URL
MayOperate == Len(calls) + incoming < MaxOperations

\* the operations that ask the Resolver for a link
LinkOps == { "handleDeepLink", "checkDeferredDeepLink", "getAttributionResult" }

NextOperations ==
    \/ MayOperate /\ handleIncomingURL
    \/ MayOperate /\ onNewIntent
    \/ \E r \in 1..Len(resolutions) :
          \E o \in HandleDeepLinkOutcomes(resolutions[r].url, configured) :
             settleResolve(r, o)
    \/ fanNext
    \/ listenerReturn
    \/ fanEnd
    \/ \E op \in LinkOps : MayOperate /\ call(op)
    \/ \E c \in 1..Len(calls) :
          \E o \in NativeOutcomes(calls[c].op, configured) : settleCall(c, o)

SpecOperations == InitOperations /\ [][NextOperations]_vars

(***************************************************************************)
(* Pushed URLs the Resolver has no link for: the native promise fulfils    *)
(* with null, or with a value that is not an object.  A configured SDK     *)
(* with one listener registered and a second one that may join.            *)
(***************************************************************************)
\* fulfilment values deserializeDeepLink has no link for
NoMatchValues == { Null, Undefined, Str("link"), Num(0), Bool(TRUE) }

\* what the native handleDeepLink settles a pushed URL with: as for any
\* URL, or one of the values above
PushOutcomes(url, isConf) ==
    HandleDeepLinkOutcomes(url, isConf)
    \cup IF isConf THEN { Fulfil(v) : v \in NoMatchValues } ELSE {}

NextNoMatch ==
    \/ \E l \in Listeners : Len(unsubs) < MaxRegsInFlight /\ LoopIdle /\ onDeepLink(l)
    \/ incoming < MaxInFlight /\ handleIncomingURL
    \/ incoming < MaxInFlight /\ onNewIntent
    \/ \E r \in 1..Len(resolutions) :
          \E o \in PushOutcomes(resolutions[r].url, configured) :
             settleResolve(r, o)
    \/ fanNext
    \/ listenerReturn
    \/ fanEnd

SpecNoMatch == InitOperations /\ [][NextNoMatch]_vars

(***************************************************************************)
(* Cold-start retrieval called again after a call has settled, while the   *)
(* platform goes on handing URLs over.  No listener is registered.         *)
(***************************************************************************)
NextRetry ==
    \/ iosInit
    \/ incoming < MaxInFlight /\ handleIncomingURL
    \/ incoming < MaxInFlight /\ onNewIntent
    \/ getInitialDeepLink
    \/ \E c \in 1..Len(initialCalls) : nativeGetInitialURL(c)
    \/ \E c \in 1..Len(initialCalls) :
          \E o \in HandleDeepLinkOutcomes(JsString(initialCalls[c].url),
                                          configured) :
             settleInitial(c, o)

SpecRetry == InitColdStart /\ [][NextRetry]_vars

(***************************************************************************)
(* Cold-start retrieval whose resolution fails: the native handleDeepLink  *)
(* rejects with any value, the inner handleDeepLink maps it and throws,    *)
(* and the catch clause of getInitialDeepLink maps what it caught.         *)
(***************************************************************************)
\* what the native handleDeepLink settles the launching URL with
FailingOutcomes ==
    { Fulfil(Null) } \cup { Reject(e) : e \in RejectedValues }

NextInitialErrors ==
    \/ iosInit
    \/ MayPush /\ handleIncomingURL
    \/ MayPush /\ onNewIntent
    \/ getInitialDeepLink
    \/ \E c \in 1..Len(initialCalls) : nativeGetInitialURL(c)
    \/ \E c \in 1..Len(initialCalls) :
          \E o \in FailingOutcomes : settleInitial(c, o)

SpecInitialErrors == InitColdStart /\ [][NextInitialErrors]_vars

(***************************************************************************)
(* The two normalizers on one payload: the link operations and             *)
(* getAttributionResult are called once each and their native promises     *)
(* fulfil with the same value.                                             *)
(***************************************************************************)
\* the operations called so far
Called == { calls[c].op : c \in DOMAIN calls }

\* the native promises that have fulfilled so far all did so with v
SamePayload(v) ==
    \A d \in DOMAIN calls : calls[d].status = "returned" => calls[d].native = v

NextAgree ==
    \/ iosInit
    \/ \E op \in LinkOps \ Called : Len(calls) < MaxOperations /\ call(op)
    \/ \E c \in 1..Len(calls) :
          \E v \in RawPayloads : SamePayload(v) /\ settleCall(c, Fulfil(v))

SpecAgree == Init /\ [][NextAgree]_vars

(***************************************************************************)
(* Every operation of the API side by side, from a configured SDK with    *)
(* one listener registered: listeners come and go, the platform pushes     *)
(* URLs, and configure, getInitialDeepLink and the promise-returning       *)
(* operations are called and settle in any order.                          *)
(***************************************************************************)
\* the run may still start something: a single-shot operation, an
\* onDeepLink call or a pushed URL, counted from the starting state
MayStart ==
    (Len(calls) + Len(initialCalls) + incoming
       + (Len(configureLog) - 1) + (Len(unsubs) - 1)) < MaxOperations

NextFrame ==
    \/ \E l \in Listeners : MayStart /\ LoopIdle /\ onDeepLink(l)
    \/ \E k \in DOMAIN unsubs : LoopIdle /\ unsubscribe(k)
    \/ MayStart /\ handleIncomingURL
    \/ MayStart /\ onNewIntent
    \/ \E r \in 1..Len(resolutions) :
          \E o \in HandleDeepLinkOutcomes(resolutions[r].url, configured) :
             settleResolve(r, o)
    \/ fanNext
    \/ listenerReturn
    \/ fanEnd
    \/ \E options \in LifecycleOptions : MayStart /\ configure(options)
    \/ nativeConfigureResolve
    \/ nativeConfigureReject
    \/ MayStart /\ getInitialDeepLink
    \/ \E c \in 1..Len(initialCalls) : nativeGetInitialURL(c)
    \/ \E c \in 1..Len(initialCalls) :
          \E o \in HandleDeepLinkOutcomes(JsString(initialCalls[c].url),
                                          configured) :
             settleInitial(c, o)
    \/ \E op \in Ops : MayStart /\ call(op)
    \/ \E c \in 1..Len(calls) :
          \E o \in NativeOutcomes(calls[c].op, configured) :
             NativeReached(c) /\ settleCall(c, o)

SpecFrame == InitOperations /\ [][NextFrame]_vars

(***************************************************************************)
(* A cold-start retrieval and pushed URLs together: a configured SDK, a    *)
(* URL held by the platform module, a listener that registers, URLs that   *)
(* arrive, and getInitialDeepLink called at any point.                     *)
(***************************************************************************)
InitOverlap == InitBridge /\ ConfiguredOnce

\* the run may still take a URL from the platform or call
\* getInitialDeepLink: three of these in all
MayOverlap == Len(initialCalls) + incoming <= MaxOperations

NextOverlap ==
    \/ \E l \in Listeners : Len(unsubs) < MaxCalls /\ LoopIdle /\ onDeepLink(l)
    \/ iosInit
    \/ MayOverlap /\ handleIncomingURL
    \/ MayOverlap /\ onNewIntent
    \/ \E r \in 1..Len(resolutions) :
          \E o \in HandleDeepLinkOutcomes(resolutions[r].url, configured) :
             settleResolve(r, o)
    \/ fanNext
    \/ listenerReturn
    \/ fanEnd
    \/ MayOverlap /\ getInitialDeepLink
    \/ \E c \in 1..Len(initialCalls) : nativeGetInitialURL(c)
    \/ \E c \in 1..Len(initialCalls) :
          \E o \in HandleDeepLinkOutcomes(JsString(initialCalls[c].url),
                                          configured) :
             settleInitial(c, o)

SpecOverlap == InitOverlap /\ [][NextOverlap]_vars

(***************************************************************************)
(* The iOS module between its two delivery paths: URLs arrive before the   *)
(* module object exists, before a listener registers, while one is         *)
(* registered and after it has unsubscribed, and getInitialDeepLink is     *)
(* called at any point.                                                    *)
(***************************************************************************)
InitPaths == InitOverlap /\ platform = "ios"

\* the run may still take a URL, call getInitialDeepLink or register a
\* listener: four of these in all
MayStep == Len(initialCalls) + incoming + Len(unsubs) <= MaxOperations + 1

NextPaths ==
    \/ \E l \in Listeners : MayStep /\ LoopIdle /\ onDeepLink(l)
    \/ \E k \in DOMAIN unsubs : LoopIdle /\ unsubscribe(k)
    \/ iosInit
    \/ MayStep /\ handleIncomingURL
    \/ \E r \in 1..Len(resolutions) :
          \E o \in HandleDeepLinkOutcomes(resolutions[r].url, configured) :
             settleResolve(r, o)
    \/ fanNext
    \/ listenerReturn
    \/ fanEnd
    \/ MayStep /\ getInitialDeepLink
    \/ \E c \in 1..Len(initialCalls) : nativeGetInitialURL(c)
    \/ \E c \in 1..Len(initialCalls) :
          \E o \in HandleDeepLinkOutcomes(JsString(initialCalls[c].url),
                                          configured) :
             settleInitial(c, o)

SpecPaths == InitPaths /\ [][NextPaths]_vars

(***************************************************************************)
(* The emitter over the life of the module: listeners register and         *)
(* unsubscribe, the last one leaving tears the subscription down and the   *)
(* next one sets it up again, and URLs arrive in between.                  *)
(***************************************************************************)
NextEmitter ==
    \/ \E l \in Listeners : Len(unsubs) < MaxRegsInFlight /\ LoopIdle /\ onDeepLink(l)
    \/ \E k \in DOMAIN unsubs : LoopIdle /\ unsubscribe(k)
    \/ iosInit
    \/ MayPush /\ handleIncomingURL
    \/ MayPush /\ onNewIntent
    \/ \E r \in 1..Len(resolutions) :
          \E o \in HandleDeepLinkOutcomes(resolutions[r].url, configured) :
             settleResolve(r, o)
    \/ fanNext
    \/ listenerReturn
    \/ fanEnd

SpecEmitter == InitMultiplexer /\ [][NextEmitter]_vars

(***************************************************************************)
(* Properties of the listener multiplexer.                                 *)
(***************************************************************************)
\* the entries of invocations that belong to resolution r and listener l
CallsOf(r, l) ==
    { i \in DOMAIN invocations :
        invocations[i].res = r /\ invocations[i].listener = l }

\* the event carries a link
IsLinkEvent(e) == "deepLink" \in DOMAIN e

\* C1: the native subscription is held exactly when the listener set is not
\* empty, and the emitter never has more than one handler for it: a second
\* onDeepLink while subscribed adds no second handler.
C1_SubscriptionIffListeners ==
    /\ nativeSubscription <=> Len(listeners) > 0
    /\ handlers = IF Len(listeners) > 0 THEN 1 ELSE 0

\* two callbacks are registered at once after an earlier unsubscribe
C1_Witness ==
    /\ Len(listeners) = 2
    /\ \E k \in DOMAIN unsubs : unsubs[k].called
    /\ handlers = 1

\* C2: the unsubscribe call that empties the listener set removes the
\* native subscription in that same call; a URL the platform hands over
\* while the set is empty starts no resolve call and no listener invocation.
C2_TeardownAtZero ==
    [][ /\ (Len(listeners) = 1 /\ Len(listeners') = 0)
            => (~nativeSubscription' /\ handlers' = 0)
        /\ (incoming' # incoming /\ Len(listeners) = 0)
            => /\ resolveCalls' = resolveCalls
               /\ resolutions' = resolutions
               /\ invocations' = invocations
               /\ fan' = fan ]_vars

\* a URL arrived after an unsubscribe call had emptied the set, and nothing
\* was resolved or delivered for it
C2_Witness ==
    \E a \in DOMAIN arrivals :
        /\ arrivals[a].afterLast
        /\ arrivals[a].url \notin Range(resolveCalls)
        /\ \A r \in DOMAIN resolutions : resolutions[r].url # arrivals[a].url
        /\ ~nativeSubscription

\* C3: when a resolution yields a link and no callback throws, subscribes or
\* unsubscribes during the fan-out, every listener of the set at settlement
\* is invoked exactly once with that one link event, and no other callback
\* is invoked for it.
C3_FanOutExactlyOnce ==
    \A r \in DOMAIN resolutions :
        ( /\ resolutions[r].status = "fulfilled"
          /\ IsLinkEvent(resolutions[r].event)
          /\ ~resolutions[r].reentered
          /\ ~resolutions[r].threw )
        => /\ \A l \in resolutions[r].atSettle : Cardinality(CallsOf(r, l)) = 1
           /\ \A l \in Listeners \ resolutions[r].atSettle : CallsOf(r, l) = {}
           /\ \A i \in DOMAIN invocations :
                 invocations[i].res = r
                 => invocations[i].event = resolutions[r].event

\* a link was delivered to a set of two listeners
C3_Witness ==
    \E r \in DOMAIN resolutions :
        /\ resolutions[r].status = "fulfilled"
        /\ IsLinkEvent(resolutions[r].event)
        /\ resolutions[r].atSettle = Listeners
        /\ ~resolutions[r].reentered
        /\ ~resolutions[r].threw

\* the fan-out of resolution r is over
Delivered(r) == resolutions[r].status \in {"fulfilled", "rejected"}

\* C4: a listener unsubscribed between the arrival of a URL and the
\* settling of its resolution is not invoked for it, and every listener in
\* the set at settlement is invoked with the resulting event.
C4_UnsubscribedWhilePending ==
    \A r \in DOMAIN resolutions :
        (Delivered(r) /\ resolutions[r].removed # {})
        => /\ \A l \in resolutions[r].removed : CallsOf(r, l) = {}
           /\ resolutions[r].event # NoEvent
              => \A l \in resolutions[r].atSettle : CallsOf(r, l) # {}

\* C5: an unsubscribe function called again changes nothing: the listener
\* set, the native subscription and the emitter's handlers stay as they are,
\* also when the same callback has been registered again in between.
C5_UnsubscribeIdempotent ==
    [][ \A k \in DOMAIN unsubs :
          (unsubs[k].called /\ unsubscribe(k))
          => /\ listeners' = listeners
             /\ nativeSubscription' = nativeSubscription
             /\ handlers' = handlers ]_vars

(***************************************************************************)
(* Properties of the cold-start path.                                      *)
(***************************************************************************)
\* C6: every getInitialDeepLink call after the first returns null.
C6_LaterCallsReturnNull ==
    \A c \in DOMAIN initialCalls :
        (c > 1 /\ initialCalls[c].status = "returned")
        => initialCalls[c].value = Null

(***************************************************************************)
(* Properties of configure.                                                *)
(***************************************************************************)
\* the documented key format: wl_live_ or wl_test_, then exactly 32
\* characters, each a letter or a digit
WellFormedKey(k) ==
    /\ k.t = "key"
    /\ Len(k.chars) = Len(LivePrefix) + 32
    /\ SubSeq(k.chars, 1, Len(LivePrefix)) \in { LivePrefix, TestPrefix }
    /\ Range(SubSeq(k.chars, Len(LivePrefix) + 1, Len(k.chars)))
           \subseteq (Lower \cup Upper \cup Digit)

\* e is a typed error of the given kind
IsTyped(e, code) ==
    e.t = "Error" /\ e.cls = "WarpLinkError" /\ e.code = Str(code)

\* this step is a configure() call
ConfigureStep == Len(configureLog') = Len(configureLog) + 1

\* the record of the configure() call of this step
ThisConfigure == configureLog'[Len(configureLog')]

\* C7: configure() with a key that is not of the documented format throws
\* a typed error of kind E_INVALID_API_KEY_FORMAT synchronously, makes no
\* native configure call, and leaves the configuration, the listener set
\* and the subscription as they were.
C7_InvalidKeyRejected ==
    [][ (ConfigureStep /\ ~WellFormedKey(ThisConfigure.options.apiKey))
        => /\ IsTyped(ThisConfigure.threw, "E_INVALID_API_KEY_FORMAT")
           /\ configureCalls' = configureCalls
           /\ UNCHANGED << configured, activeConfig, configureDone,
                           multiplexerVars, dispatchVars, platformVars >> ]_vars

\* a key one character too long was rejected while a listener was
\* registered
C7_Witness ==
    /\ Len(listeners) = 1
    /\ \E i \in DOMAIN configureLog :
          /\ configureLog[i].options.apiKey =
                 Key(LivePrefix \o Rep("a", KeySuffixLen + 1))
          /\ IsTyped(configureLog[i].threw, "E_INVALID_API_KEY_FORMAT")
          /\ configureLog[i].calls = 0

\* C8: configure() with a well-formed key returns without throwing and
\* makes exactly one native configure call, whose argument holds the key
\* and exactly the options that were supplied, with their values.
C8_ValidKeyForwarded ==
    [][ (ConfigureStep /\ WellFormedKey(ThisConfigure.options.apiKey))
        => /\ ThisConfigure.threw = Null
           /\ Len(configureCalls') = Len(configureCalls) + 1
           /\ SubSeq(configureCalls', 1, Len(configureCalls)) = configureCalls
           /\ LET sent     == configureCalls'[Len(configureCalls')]
                  supplied == { n \in OptionNames :
                                  ThisConfigure.options[n] # Undefined }
              IN /\ DOMAIN sent = {"apiKey"} \cup supplied
                 /\ \A n \in DOMAIN sent : sent[n] = ThisConfigure.options[n] ]_vars

\* a well-formed key went through with one option supplied and two left out
C8_Witness ==
    \E i \in DOMAIN configureLog :
        /\ WellFormedKey(configureLog[i].options.apiKey)
        /\ configureLog[i].options.apiEndpoint # Undefined
        /\ configureLog[i].options.debugLogging = Undefined
        /\ configureLog[i].options.matchWindowHours = Undefined
        /\ configureLog[i].threw = Null
        /\ configureCalls # <<>>

(***************************************************************************)
(* Properties of the error mapping.                                        *)
(***************************************************************************)
\* the code and the message a rejected value carries, as properties of an
\* Error instance or of a plain object
CodeOf(e) ==
    CASE e.t = "Error"  -> e.code
      [] e.t = "object" -> Get(e, "code")
      [] OTHER          -> Undefined

MessageOf(e) ==
    CASE e.t = "Error"  -> Str(e.message)
      [] e.t = "object" -> Get(e, "message")
      [] OTHER          -> Undefined

\* the rejected value carries one of the eight codes
CarriesKnownCode(e) == CodeOf(e).t = "string" /\ CodeOf(e).s \in ErrorCodes

\* C9: an operation whose native promise rejects with a value carrying one
\* of the eight codes rejects with a typed error of that kind and the same
\* message, whether the value is an Error instance or not.
C9_KnownCodeKept ==
    \A c \in DOMAIN calls :
        (calls[c].status = "rejected" /\ CarriesKnownCode(calls[c].native))
        => /\ IsTyped(calls[c].value, CodeOf(calls[c].native).s)
           /\ Str(calls[c].value.message) = MessageOf(calls[c].native)

\* e is a typed error of one of the eight kinds
IsTypedError(e) ==
    /\ e.t = "Error"
    /\ e.cls = "WarpLinkError"
    /\ e.code.t = "string"
    /\ e.code.s \in ErrorCodes

IsErrorEvent(e) == "error" \in DOMAIN e

\* C11: when the resolution of a pushed URL rejects, every listener of the
\* set at settlement is invoked exactly once with the mapped error as the
\* error arm of the event, and resolveAndDispatch does not end in a
\* rejected promise.
C11_ErrorDeliveredToAll ==
    \A r \in DOMAIN resolutions :
        (Delivered(r) /\ IsErrorEvent(resolutions[r].event))
        => /\ resolutions[r].status # "rejected"
           /\ \A l \in resolutions[r].atSettle :
                 /\ Cardinality(CallsOf(r, l)) = 1
                 /\ \A i \in CallsOf(r, l) :
                       invocations[i].event = resolutions[r].event

\* the event has a link and no error, or an error and no link
ExactlyOneArm(e) ==
    \/ DOMAIN e = {"deepLink"} /\ e.deepLink.t = "object"
    \/ DOMAIN e = {"error"} /\ IsTypedError(e.error)

\* C12: every event passed to a listener has exactly one arm: a link and no
\* error, or an error and no link.
C12_ExactlyOneArm ==
    \A i \in DOMAIN invocations : ExactlyOneArm(invocations[i].event)

\* an error event went to two listeners
C12_Witness ==
    /\ Len(invocations) = 2
    /\ \A i \in DOMAIN invocations : IsErrorEvent(invocations[i].event)
    /\ invocations[1].listener # invocations[2].listener

(***************************************************************************)
(* Properties of the operations before configure().                        *)
(***************************************************************************)
\* call c of the promise-returning operations has settled
Settled(c) == calls[c].status \in {"returned", "rejected"}

\* getInitialDeepLink call c has settled
SettledInitial(c) == initialCalls[c].status \in {"returned", "rejected"}

\* resolution r ended with E_NOT_CONFIGURED as the error arm of its event,
\* and that event is what its listeners were called with
NotConfiguredEvent(r) ==
    /\ IsErrorEvent(resolutions[r].event)
    /\ IsTyped(resolutions[r].event.error, "E_NOT_CONFIGURED")
    /\ \A l \in resolutions[r].atSettle :
          /\ CallsOf(r, l) # {}
          /\ \A i \in CallsOf(r, l) :
                invocations[i].event = resolutions[r].event

C14_KeyFormatOnlyFromConfigure ==
    \A c \in DOMAIN calls :
        calls[c].status = "rejected"
        => ~IsTyped(calls[c].value, "E_INVALID_API_KEY_FORMAT")

\* C15: when the native configure promise rejects after configure() has
\* returned, nothing comes of it: no unhandled promise rejection and no
\* listener call.
C15_AsyncFailureSwallowed ==
    [][nativeConfigureReject
         => unhandled' = unhandled /\ invocations' = invocations]_vars

(***************************************************************************)
(* Properties of the fan-out under re-entrant and concurrent use.          *)
(***************************************************************************)
\* C16: when callbacks call onDeepLink or an unsubscribe function during a
\* fan-out and none throws, the listeners invoked for the event are exactly
\* those of the set at settlement, each once: a listener added during the
\* fan-out is not invoked for that event.
C16_ReentrantFanOut ==
    \A r \in DOMAIN resolutions :
        ( /\ Delivered(r)
          /\ resolutions[r].event # NoEvent
          /\ resolutions[r].reentered
          /\ ~resolutions[r].threw )
        => /\ \A l \in resolutions[r].atSettle : Cardinality(CallsOf(r, l)) = 1
           /\ \A l \in Listeners \ resolutions[r].atSettle : CallsOf(r, l) = {}

\* C17: when a later pushed URL settles while an earlier one is still
\* pending, its event goes, before any event of the earlier one, to exactly
\* the listeners of the set at its own settlement, each once.
C17_ConcurrentFanOut ==
    \A r1, r2 \in DOMAIN resolutions :
        ( /\ r1 < r2
          /\ resolutions[r1].status = "pending"
          /\ Delivered(r2)
          /\ resolutions[r2].event # NoEvent )
        => /\ \A l \in resolutions[r2].atSettle :
                 Cardinality(CallsOf(r2, l)) = 1
           /\ \A l \in Listeners \ resolutions[r2].atSettle :
                 CallsOf(r2, l) = {}
           /\ \A i \in DOMAIN invocations : invocations[i].res # r1

(***************************************************************************)
(* Properties of the response normalizers.                                 *)
(***************************************************************************)
\* the calls that returned what deserializeDeepLink made of the native value
LinkCalls ==
    { c \in DOMAIN calls :
        /\ calls[c].op \in {"handleDeepLink", "checkDeferredDeepLink"}
        /\ calls[c].status = "returned" }

\* the calls that returned what deserializeAttributionResult made of it
AttributionCalls ==
    { c \in DOMAIN calls :
        calls[c].op = "getAttributionResult" /\ calls[c].status = "returned" }

LinkFields ==
    { "linkId", "destination", "deepLinkUrl", "customParams", "isDeferred",
      "matchType", "matchConfidence" }

AttributionFields ==
    { "linkId", "matchType", "matchConfidence", "isDeferred", "installId" }

\* property k of the raw object is missing (or holds undefined)
Absent(raw, k) == Get(raw, k) = Undefined

\* out has all seven fields of a link, each of its declared type
CompleteLink(out) ==
    /\ out.t = "object"
    /\ DOMAIN out.fields = LinkFields
    /\ out.fields.linkId.t = "string"
    /\ out.fields.destination.t = "string"
    /\ out.fields.deepLinkUrl.t \in {"string", "null"}
    /\ out.fields.customParams.t = "object"
    /\ out.fields.isDeferred.t = "boolean"
    /\ out.fields.matchType \in {Str("deterministic"), Str("probabilistic"), Null}
    /\ out.fields.matchConfidence.t \in {"number", "null"}

\* the defaults deserializeDeepLink is to put in place of what raw lacks
DefaultsApplied(raw, out) ==
    /\ Absent(raw, "linkId") => out.fields.linkId = Str("")
    /\ Absent(raw, "destination") => out.fields.destination = Str("")
    /\ Absent(raw, "deepLinkUrl") => out.fields.deepLinkUrl = Null
    /\ Get(raw, "customParams").t # "object"
          => DOMAIN out.fields.customParams.fields = {}
    /\ Absent(raw, "isDeferred") => out.fields.isDeferred = Bool(FALSE)

Attributable(raw) ==
    /\ raw.t = "object"
    /\ Get(raw, "matchType") \in {Str("deterministic"), Str("probabilistic")}
    /\ Get(raw, "matchConfidence").t = "number"

\* out has all five fields of an attribution result, each of its declared type
CompleteAttribution(raw, out) ==
    /\ out.t = "object"
    /\ DOMAIN out.fields = AttributionFields
    /\ out.fields.linkId.t = "string"
    /\ out.fields.matchType = Get(raw, "matchType")
    /\ out.fields.matchConfidence = Get(raw, "matchConfidence")
    /\ out.fields.isDeferred.t = "boolean"
    /\ out.fields.installId.t \in {"string", "null"}

\* C19: deserializeAttributionResult returns null if and only if the raw
\* value is not an object, or its matchType is not 'deterministic' or
\* 'probabilistic', or its matchConfidence is missing or not a number;
\* otherwise it returns a record with all five fields.
C19_AttributionAllOrNothing ==
    \A c \in AttributionCalls :
        LET raw == calls[c].native
            out == calls[c].value
        IN IF Attributable(raw)
           THEN CompleteAttribution(raw, out)
           ELSE out = Null

\* a payload with a match type and a confidence but no linkId and no
\* installId came back as a complete record
C19_Witness ==
    \E c \in AttributionCalls :
        /\ Attributable(calls[c].native)
        /\ Absent(calls[c].native, "linkId") \/ Absent(calls[c].native, "installId")
        /\ CompleteAttribution(calls[c].native, calls[c].value)

\* C20: a raw matchConfidence that is a number comes back unchanged from
\* both normalizers, 0 included, and does not make the attribution null; one
\* that is not a number comes back as null in a link.
C20_ConfidencePassedThrough ==
    /\ \A c \in LinkCalls :
          LET raw == calls[c].native
              out == calls[c].value
          IN raw.t = "object"
             => out.fields.matchConfidence =
                   IF Get(raw, "matchConfidence").t = "number"
                   THEN Get(raw, "matchConfidence") ELSE Null
    /\ \A c \in AttributionCalls :
          LET raw == calls[c].native
              out == calls[c].value
          IN Attributable(raw)
             => out # Null /\ out.fields.matchConfidence = Get(raw, "matchConfidence")

\* a link whose raw confidence was 0 was returned with confidence 0
C20_Witness ==
    \E c \in LinkCalls :
        /\ calls[c].native.t = "object"
        /\ Get(calls[c].native, "matchConfidence") = Num(0)
        /\ calls[c].value.fields.matchConfidence = Num(0)

\* v is a number of the interval [0, 1]
InUnitInterval(v) == v.t = "number" /\ 0 <= v.n /\ v.n <= 1

\* C21: the matchConfidence of a link returned by deserializeDeepLink is null
\* or a number in [0, 1], and that of a result returned by
\* deserializeAttributionResult is a number in [0, 1], whatever the raw
\* payload.
C21_ConfidenceInUnitInterval ==
    /\ \A c \in LinkCalls :
          calls[c].value # Null
          => \/ calls[c].value.fields.matchConfidence = Null
             \/ InUnitInterval(calls[c].value.fields.matchConfidence)
    /\ \A c \in AttributionCalls :
          calls[c].value # Null
          => InUnitInterval(calls[c].value.fields.matchConfidence)

\* the two match types a link may carry
MatchTypes == { Str("deterministic"), Str("probabilistic") }

\* C22: the matchType of a link returned by deserializeDeepLink is
\* 'deterministic' or 'probabilistic' exactly when the raw matchType is that
\* literal, and null for every other raw value: missing, null, undefined,
\* another string, not a string.
C22_MatchTypeLiteralOrNull ==
    \A c \in LinkCalls :
        LET raw == calls[c].native
            out == calls[c].value
        IN raw.t = "object"
           => out.fields.matchType =
                 IF Get(raw, "matchType") \in MatchTypes
                 THEN Get(raw, "matchType") ELSE Null

\* a link whose raw matchType was 'probabilistic' came back with it
C22_Witness ==
    \E c \in LinkCalls :
        /\ calls[c].native.t = "object"
        /\ Get(calls[c].native, "matchType") = Str("probabilistic")
        /\ calls[c].value.fields.matchType = Str("probabilistic")

(***************************************************************************)
(* Properties of the configuration lifecycle.                              *)
(***************************************************************************)
\* call c was made after a configure() call had returned without throwing
AfterConfigure(c) == calls[c].queuedAfter > 0

\* C23: the SDK is configured only after a configure() call with a valid
\* key, and an operation called after configure() has returned without
\* throwing finds it configured: isConfigured resolves true and no
\* operation is rejected with E_NOT_CONFIGURED.
C23_ConfiguredAfterConfigure ==
    /\ configured => \E i \in DOMAIN configureLog : configureLog[i].threw = Null
    /\ \A c \in DOMAIN calls :
          (Settled(c) /\ AfterConfigure(c))
          => IF calls[c].op = "isConfigured"
             THEN calls[c].status = "returned" /\ calls[c].value = Bool(TRUE)
             ELSE ~( /\ calls[c].status = "rejected"
                     /\ IsTyped(calls[c].value, "E_NOT_CONFIGURED") )

\* the configure() calls so far that returned without throwing, in order
ValidLog == SelectSeq(configureLog, LAMBDA e : e.threw = Null)

\* C24: configure() may be called again: every call with a valid key makes
\* one more native configure call, the native calls are in the order of the
\* configure() calls, and once the native module has run them all the
\* configuration in effect is that of the last call with a valid key.
C24_LastValidCallWins ==
    /\ configureCalls =
           [ i \in 1..Len(ValidLog) |-> BuildConfig(ValidLog[i].options) ]
    /\ (Len(ValidLog) > 1 /\ configureDone = Len(configureCalls))
          => /\ configured
             /\ activeConfig = BuildConfig(ValidLog[Len(ValidLog)].options)

(***************************************************************************)
(* Properties of cold-start retrieval.                                     *)
(***************************************************************************)
\* the getInitialDeepLink calls so far that were handed a URL, in order
CallsWithURL == SelectSeq(initialCalls, LAMBDA e : ~IsNullish(e.url))

\* C25: a getInitialDeepLink call that finds no URL returns null and makes
\* no handleDeepLink call; one that finds a URL makes exactly one native
\* handleDeepLink call, with that URL, and returns the normalized link (a
\* complete link or null), never the raw value.
C25_ColdStartResolvesOnce ==
    /\ resolveCalls = [ i \in 1..Len(CallsWithURL) |-> CallsWithURL[i].url.s ]
    /\ \A c \in DOMAIN initialCalls :
          initialCalls[c].status = "returned"
          => IF IsNullish(initialCalls[c].url)
             THEN initialCalls[c].value = Null
             ELSE IF initialCalls[c].native.t = "object"
                  THEN CompleteLink(initialCalls[c].value)
                  ELSE initialCalls[c].value = Null

\* a call found the launching URL and returned a complete link for a native
\* payload that had only an id
C25_Witness ==
    \E c \in DOMAIN initialCalls :
        /\ initialCalls[c].status = "returned"
        /\ ~IsNullish(initialCalls[c].url)
        /\ initialCalls[c].native = Obj([ linkId |-> initialCalls[c].url ])
        /\ CompleteLink(initialCalls[c].value)
        /\ Len(resolveCalls) = 1

(***************************************************************************)
(* Properties of the operations of a configured SDK.                       *)
(***************************************************************************)
\* how many entries of seq equal x
Count(seq, x) == Cardinality({ i \in DOMAIN seq : seq[i] = x })

\* C26: every invocation of handleDeepLink, checkDeferredDeepLink and
\* getAttributionResult, and every URL pushed while a listener is
\* registered, makes exactly one native call, whether it succeeds or
\* rejects; each call returns the normalization of what its own native call
\* produced, null for null, and throws what its own native call rejected
\* with; a pushed URL is delivered at most once to a listener.
C26_OneNativeCallEach ==
    /\ Count(resolveCalls, AppUrl) =
           Cardinality({ c \in DOMAIN calls : calls[c].op = "handleDeepLink" })
    /\ \A op \in LinkOps \ {"handleDeepLink"} :
          Count(resolveCalls, op) =
             Cardinality({ c \in DOMAIN calls : calls[c].op = op })
    /\ \A n \in 1..incoming : Count(resolveCalls, UrlOf(n)) = 1
    /\ Len(resolveCalls) = Len(calls) + incoming
    /\ \A c \in DOMAIN calls :
          /\ calls[c].status = "returned"
              => IF calls[c].native.t = "object"
                 THEN /\ calls[c].value.t = "object"
                      /\ calls[c].value.fields.linkId
                            = Get(calls[c].native, "linkId")
                 ELSE calls[c].value = Null
          /\ calls[c].status = "rejected"
              => /\ IsTypedError(calls[c].value)
                 /\ calls[c].value.code = calls[c].native.code
    /\ \A r \in DOMAIN resolutions :
          \A l \in Listeners : Cardinality(CallsOf(r, l)) <= 1

\* two checkDeferredDeepLink calls were pending together; the first got a
\* link and the second null, each from its own native call
C26_Witness ==
    /\ Len(calls) = 2
    /\ \A c \in DOMAIN calls : calls[c].op = "checkDeferredDeepLink"
    /\ calls[1].status = "returned" /\ calls[1].value.t = "object"
    /\ calls[2].status = "returned" /\ calls[2].value = Null
    /\ Count(resolveCalls, "checkDeferredDeepLink") = 2

(***************************************************************************)
(* Properties of completion.                                               *)
(***************************************************************************)
\* every listener of the set at the settlement of r was called for it
DeliveredToAll(r) ==
    /\ Delivered(r)
    /\ resolutions[r].event # NoEvent
          => \A l \in resolutions[r].atSettle : CallsOf(r, l) # {}

\* C27: nothing cancels a resolution: every pushed URL that started one is
\* eventually settled, and its outcome is delivered to every listener of
\* the set at that settlement, whatever was subscribed or unsubscribed in
\* the meantime.
C27_RunsToCompletion ==
    \A r \in 1..MaxPush :
        (r \in DOMAIN resolutions) ~> (r \in DOMAIN resolutions /\ DeliveredToAll(r))

(***************************************************************************)
(* Properties of the platform modules' slot for the launching URL.         *)
(***************************************************************************)
\* C28: the slot for the launching URL is read destructively and not set
\* again: every getInitialURL call after the first returns no URL, on iOS
\* and on Android, whatever URLs arrive and whatever listeners are
\* registered.
C28_SlotReadOnce ==
    \A c \in DOMAIN initialCalls :
        (c > 1 /\ initialCalls[c].status # "awaitURL")
        => IsNullish(initialCalls[c].url)

(***************************************************************************)
(* Properties of repeated registration.                                    *)
(***************************************************************************)
\* C29: registrations are independent: as long as one of the unsubscribe
\* functions returned for a callback has not been called, the callback is
\* in the listener set and the native subscription is held.
C29_RegistrationsIndependent ==
    \A k \in DOMAIN unsubs :
        ~unsubs[k].called
        => /\ unsubs[k].listener \in Range(listeners)
           /\ nativeSubscription

(***************************************************************************)
(* Properties of the fan-out when a callback throws.                       *)
(***************************************************************************)
\* C30: when the Resolver answered a pushed URL with a link, no listener is
\* given an error event for that URL and no listener is called twice for
\* it, also when a callback throws during the fan-out of the link.
C30_ErrorOnlyIfResolverRejected ==
    \A r \in DOMAIN resolutions :
        IsLinkEvent(resolutions[r].event)
        => /\ \A i \in DOMAIN invocations :
                 invocations[i].res = r => ~IsErrorEvent(invocations[i].event)
           /\ \A l \in Listeners : Cardinality(CallsOf(r, l)) <= 1

(***************************************************************************)
(* Pushed URLs with no match.                                              *)
(***************************************************************************)
\* the native promise of resolution r fulfilled with a value that is null
\* or not an object
NoMatch(r) ==
    /\ resolutions[r].status # "pending"
    /\ resolutions[r].native.ok
    /\ (IsNullish(resolutions[r].native.value)
          \/ ~TypeofObject(resolutions[r].native.value))

\* C31: when the resolution of a pushed URL fulfils with null or with a
\* value that is not an object, no listener is invoked for that URL,
\* neither with a link nor with an error, and resolveAndDispatch is done.
C31_NoMatchNoEvent ==
    \A r \in DOMAIN resolutions :
       NoMatch(r) =>
          /\ \A i \in DOMAIN invocations : invocations[i].res # r
          /\ resolutions[r].status = "fulfilled"
          /\ fan.res # r

\* a listener is registered, one pushed URL resolved to null and another
\* to a value that is not an object
C31_Witness ==
    /\ Len(listeners) > 0
    /\ \E r \in DOMAIN resolutions :
          NoMatch(r) /\ resolutions[r].native.value = Null
    /\ \E r \in DOMAIN resolutions :
          NoMatch(r) /\ resolutions[r].native.value = Str("link")

(***************************************************************************)
(* Cold-start retrieval after a failed resolution.                         *)
(***************************************************************************)
\* getInitialDeepLink call c has read the slot
HasReadSlot(c) == initialCalls[c].status # "awaitURL"

\* C32: when a getInitialDeepLink call has rejected because resolving the
\* held URL failed, the URL stays consumed: the next call finds no URL,
\* makes no native handleDeepLink call and returns null.
C32_FailedColdStartNotRetried ==
    \A c \in DOMAIN initialCalls :
       initialCalls[c].status = "rejected"
       => /\ initialURL # initialCalls[c].url
          /\ (c + 1 \in DOMAIN initialCalls /\ HasReadSlot(c + 1))
             => /\ IsNullish(initialCalls[c + 1].url)
                /\ initialCalls[c + 1].status = "returned"
                /\ initialCalls[c + 1].value = Null
                /\ Len(resolveCalls) = Len(SelectSeq(SubSeq(initialCalls, 1, c),
                                           LAMBDA e : ~IsNullish(e.url)))

(***************************************************************************)
(* Errors that pass through two mapping layers.                            *)
(***************************************************************************)
\* the kind and the message one mapping gives a rejected value: the code of
\* an Error instance when it is one of the eight and E_SERVER_ERROR
\* otherwise, with the instance's message or the value's string form
KindOnce(e) ==
    IF e.t = "Error" /\ CarriesKnownCode(e) THEN e.code.s ELSE "E_SERVER_ERROR"

MessageOnce(e) == IF e.t = "Error" THEN e.message ELSE JsString(e)

\* C33: error mapping is idempotent: a getInitialDeepLink call whose
\* resolution failed rejects with a typed error that has the kind and the
\* message the first mapping (the one inside handleDeepLink) produced, and
\* mapping that error once more gives the same error again.
C33_MappingIdempotent ==
    \A c \in DOMAIN initialCalls :
       initialCalls[c].status = "rejected"
       => /\ IsTypedError(initialCalls[c].value)
          /\ initialCalls[c].value.code.s = KindOnce(initialCalls[c].native)
          /\ initialCalls[c].value.message = MessageOnce(initialCalls[c].native)
          /\ mapNativeError(initialCalls[c].value) = initialCalls[c].value

\* a cold-start retrieval failed with a native rejection carrying a known
\* code and threw that kind and message after two mappings
C33_Witness ==
    \E c \in DOMAIN initialCalls :
       /\ initialCalls[c].status = "rejected"
       /\ initialCalls[c].native = ErrorObj("Error", Str("E_NETWORK_ERROR"), "boom")
       /\ initialCalls[c].value = WarpLinkError("E_NETWORK_ERROR", "boom")

(***************************************************************************)
(* The two normalizers compared.                                           *)
(***************************************************************************)
\* the fields an attribution record shares with a link
SharedFields == { "linkId", "isDeferred", "matchType", "matchConfidence" }

\* C34: on one raw payload, when deserializeAttributionResult returns a
\* record deserializeDeepLink returns a link with the same linkId,
\* isDeferred, matchType and matchConfidence, and when deserializeDeepLink
\* returns null so does deserializeAttributionResult.
C34_NormalizersAgree ==
    \A a \in AttributionCalls : \A l \in LinkCalls :
       calls[a].native = calls[l].native
       => /\ calls[a].value # Null
             => /\ calls[l].value # Null
                /\ \A k \in SharedFields :
                      calls[l].value.fields[k] = calls[a].value.fields[k]
          /\ calls[l].value = Null => calls[a].value = Null

\* a payload whose isDeferred is a number gave an attribution record and a
\* link, both with isDeferred true
C34_Witness ==
    \E a \in AttributionCalls : \E l \in LinkCalls :
       /\ calls[a].native = calls[l].native
       /\ calls[a].native = Obj(With(FullFields, "isDeferred", Num(7)))
       /\ calls[a].value # Null
       /\ calls[l].value # Null
       /\ calls[a].value.fields.isDeferred = Bool(TRUE)

(***************************************************************************)
(* What the single-shot operations leave alone.                            *)
(***************************************************************************)
\* this step is a step of a single-shot operation: a call of configure,
\* getInitialDeepLink, handleDeepLink, checkDeferredDeepLink,
\* getAttributionResult or isConfigured, or the settling of one
SingleShotStep ==
    \/ configureLog' # configureLog
    \/ configureDone' # configureDone
    \/ initialCalls' # initialCalls
    \/ calls' # calls

\* this step is a step of onDeepLink or of an unsubscribe function
SubscribeStep ==
    \/ \E l \in Listeners : onDeepLink(l)
    \/ \E k \in DOMAIN unsubs : unsubscribe(k)

\* the URLs the platform has pushed
PushedUrls == { arrivals[i].url : i \in DOMAIN arrivals }

\* C35: a step of a single-shot operation, whether the operation succeeds
\* or fails, invokes no listener and leaves the listener set, the native
\* subscription and the emitter's handlers as they are; the listener set
\* and the subscription change in onDeepLink and unsubscribe steps only;
\* and listeners are invoked for pushed URLs only.
C35_SingleShotFrame ==
    /\ [][ /\ SingleShotStep
              => UNCHANGED << listeners, nativeSubscription, emitter, handlers,
                              invocations, resolutions, fan >>
           /\ (listeners' # listeners \/ nativeSubscription' # nativeSubscription)
              => SubscribeStep ]_vars
    /\ [](\A r \in DOMAIN resolutions : resolutions[r].url \in PushedUrls)

\* with a listener registered, a handleDeepLink call has settled and the
\* listener was invoked for a pushed URL, and for nothing else
C35_Witness ==
    /\ Len(listeners) > 0
    /\ nativeSubscription
    /\ \E c \in DOMAIN calls :
          calls[c].op = "handleDeepLink" /\ calls[c].status # "pending"
    /\ \E i \in DOMAIN invocations :
          resolutions[invocations[i].res].url \in PushedUrls

(***************************************************************************)
(* A cold-start retrieval and a push-driven resolution in flight together. *)
(***************************************************************************)
\* what an operation makes of the outcome o of its own native
\* handleDeepLink(url) call: the link of that URL, null, or a typed error
\* with the code of the rejection
OwnResult(url, o, out) ==
    IF o.ok
    THEN IF o.value = Null THEN out = Null
         ELSE CompleteLink(out) /\ out.fields.linkId = Str(url)
    ELSE IsTyped(out, o.value.code.s)

\* getInitialDeepLink call c waits for its native handleDeepLink call
AwaitsResolve(c) == initialCalls[c].status = "awaitResolve"

\* resolution r waits for its native handleDeepLink call
Pending(r) == resolutions[r].status = "pending"

\* C36: a cold-start retrieval and a push-driven resolution may be in
\* flight together and neither waits for the other: whenever the event loop
\* is free each of them can settle, whatever the state of the other; the
\* value getInitialDeepLink returns or throws is made from the outcome of
\* its own native call, and the event the listeners get is made from the
\* outcome of the pushed URL's own native call, in every settlement order.
C36_ColdStartAndPushIndependent ==
    /\ \A c \in DOMAIN initialCalls :
          /\ (AwaitsResolve(c) /\ LoopIdle)
             => ENABLED (\E o \in HandleDeepLinkOutcomes(initialCalls[c].url.s,
                                                         configured) :
                           settleInitial(c, o))
          /\ initialCalls[c].status \in {"returned", "rejected"}
                /\ ~IsNullish(initialCalls[c].url)
             => OwnResult(initialCalls[c].url.s,
                          [ ok |-> initialCalls[c].status = "returned",
                            value |-> initialCalls[c].native ],
                          initialCalls[c].value)
    /\ \A r \in DOMAIN resolutions :
          /\ (Pending(r) /\ LoopIdle)
             => ENABLED (\E o \in HandleDeepLinkOutcomes(resolutions[r].url,
                                                         configured) :
                           settleResolve(r, o))
          /\ ~Pending(r)
             => /\ IF resolutions[r].native.ok
                   THEN IF resolutions[r].native.value = Null
                        THEN resolutions[r].event = NoEvent
                        ELSE /\ IsLinkEvent(resolutions[r].event)
                             /\ OwnResult(resolutions[r].url, resolutions[r].native,
                                          resolutions[r].event.deepLink)
                   ELSE /\ IsErrorEvent(resolutions[r].event)
                        /\ OwnResult(resolutions[r].url, resolutions[r].native,
                                     resolutions[r].event.error)
                /\ \A i \in DOMAIN invocations :
                      invocations[i].res = r
                      => invocations[i].event = resolutions[r].event

\* getInitialDeepLink made its native call first and still waits for it,
\* while the pushed URL that came later has been resolved and delivered
C36_Witness ==
    /\ \E c \in DOMAIN initialCalls : AwaitsResolve(c)
    /\ Len(resolveCalls) = 2
    /\ \E r \in DOMAIN resolutions :
          /\ resolutions[r].status = "fulfilled"
          /\ resolveCalls[2] = resolutions[r].url
          /\ \E i \in DOMAIN invocations :
                invocations[i].res = r /\ IsLinkEvent(invocations[i].event)

(***************************************************************************)
(* The two delivery paths of the iOS module.                               *)
(***************************************************************************)
\* this step is handleIncomingURL taking the next URL
IncomingStep == platform = "ios" /\ incoming' = incoming + 1

\* the URLs the cold-start path has got hold of: the one in the slot and
\* those getInitialURL handed to getInitialDeepLink
ColdStartUrls ==
    { u \in { initialURL } \cup { initialCalls[c].url : c \in DOMAIN initialCalls } :
        ~IsNullish(u) }

\* the URLs the push path has emitted
EmittedUrls == { Str(resolutions[r].url) : r \in DOMAIN resolutions }

\* C37: on iOS every incoming URL takes exactly one path: with a module
\* instance that is being observed it is emitted as an event and the pending
\* slot is left as it is; otherwise it is stored in the pending slot,
\* replacing what was there, and nothing is emitted; so no URL reaches the
\* application both as a pushed event and through getInitialDeepLink.
C37_OnePathPerURL ==
    /\ [][ IncomingStep
           => IF sharedInstance /\ hasListeners
              THEN /\ Len(resolutions') = Len(resolutions) + 1
                   /\ resolutions'[Len(resolutions')].url = UrlOf(incoming')
                   /\ initialURL' = initialURL
              ELSE /\ initialURL' = Str(UrlOf(incoming'))
                   /\ resolutions' = resolutions ]_vars
    /\ [](platform = "ios" => ColdStartUrls \cap EmittedUrls = {})

\* on iOS one URL was stored and handed to getInitialDeepLink, and a later
\* one was emitted and delivered to the listener
C37_Witness ==
    /\ platform = "ios"
    /\ \E c \in DOMAIN initialCalls : initialCalls[c].url = Str(UrlOf(1))
    /\ \E i \in DOMAIN invocations :
          resolutions[invocations[i].res].url = UrlOf(2)
    /\ ColdStartUrls \cap EmittedUrls = {}

(***************************************************************************)
(* The event emitter object.                                               *)
(***************************************************************************)
\* C38: the NativeEventEmitter is created by the first onDeepLink call and
\* never again: none exists before that call, and every later onDeepLink
\* call, also one that sets the subscription up again after a teardown,
\* uses the one that exists.
C38_EmitterLazyOnce ==
    /\ [](IF unsubs = <<>>
          THEN ~emitter /\ emitterCreated = 0
          ELSE emitter /\ emitterCreated = 1)
    /\ [][ emitter => emitter' /\ emitterCreated' = emitterCreated ]_vars

\* a URL arrived after the last listener had unsubscribed, and the
\* subscription has been set up again since, on the emitter made first
C38_Witness ==
    /\ \E a \in DOMAIN arrivals : arrivals[a].afterLast
    /\ nativeSubscription
    /\ handlers = 1
    /\ Len(unsubs) > 1
    /\ emitterCreated = 1

====
